---- MODULE Spec2Model ----
(***************************************************************************)
(* Bodhi design tokens: the Rupa schema validator, the poetic token        *)
(* registry and the `bodhi token compile` command, as state machines.      *)
(*                                                                         *)
(* JavaScript values are records [kind, val, kids]:                        *)
(*   kind  "undefined" | "null" | "bool" | "num" | "str" | "obj" | "arr"   *)
(*         | "fn" (a function, such as a member of Object.prototype)       *)
(*   val   the text of a string, the decimal text of a number, "true" or   *)
(*         "false" for a boolean, the name of a function                   *)
(*   kids  the entries of an object or array in Object.entries order, a    *)
(*         sequence of [key, value] records                                *)
(***************************************************************************)
EXTENDS Integers, Sequences, FiniteSets, TLC

(* ---------------------------------------------------------------------- *)
(* JavaScript values                                                      *)
(* ---------------------------------------------------------------------- *)

Undefined == [kind |-> "undefined", val |-> "", kids |-> <<>>]

Null == [kind |-> "null", val |-> "", kids |-> <<>>]

Str(s) == [kind |-> "str", val |-> s, kids |-> <<>>]

Num(s) == [kind |-> "num", val |-> s, kids |-> <<>>]

Bool(s) == [kind |-> "bool", val |-> s, kids |-> <<>>]

Fn(s) == [kind |-> "fn", val |-> s, kids |-> <<>>]

Obj(entries) == [kind |-> "obj", val |-> "", kids |-> entries]

Arr(entries) == [kind |-> "arr", val |-> "", kids |-> entries]

KV(k, v) == [key |-> k, value |-> v]

\* The members every object inherits from Object.prototype; the model
\* carries two of them.
ProtoNames == {"constructor", "toString"}

\* Object.keys(v), as a set.
KeySet(v) == {v.kids[i].key : i \in 1..Len(v.kids)}

\* Object.prototype.hasOwnProperty.call(v, k)
HasOwn(v, k) == v.kind \in {"obj", "arr"} /\ k \in KeySet(v)

\* v[k]: an own property, else the member inherited from Object.prototype,
\* else undefined. (v is not null or undefined: there v[k] throws, which the
\* callers model.)
Get(v, k) ==
  IF HasOwn(v, k)
  THEN v.kids[CHOOSE i \in 1..Len(v.kids) : v.kids[i].key = k].value
  ELSE IF k \in ProtoNames THEN Fn(k) ELSE Undefined

\* ToBoolean(v)
Truthy(v) ==
  CASE v.kind \in {"undefined", "null"} -> FALSE
    [] v.kind = "bool" -> v.val = "true"
    [] v.kind = "num" -> v.val \notin {"0", "NaN"}
    [] v.kind = "str" -> v.val # ""
    [] OTHER -> TRUE

\* typeof v === 'object' && v !== null
IsObject(v) == v.kind \in {"obj", "arr"}

\* String(v), the text a template literal interpolates.
String(v) ==
  CASE v.kind \in {"str", "num", "bool"} -> v.val
    [] v.kind = "null" -> "null"
    [] v.kind = "undefined" -> "undefined"
    [] v.kind = "obj" -> "[object Object]"
    [] OTHER -> "function"

RECURSIVE ConcatAll(_)
\* The concatenation of a sequence of sequences.
ConcatAll(ss) == IF ss = <<>> THEN <<>> ELSE Head(ss) \o ConcatAll(Tail(ss))

Char(s, i) == SubSeq(s, i, i)

StartsWith(s, p) == Len(s) >= Len(p) /\ SubSeq(s, 1, Len(p)) = p

EndsWith(s, p) == Len(s) >= Len(p) /\ SubSeq(s, Len(s) - Len(p) + 1, Len(s)) = p

(* ---------------------------------------------------------------------- *)
(* The colour grammar (rupa-validator.js)                                 *)
(* ---------------------------------------------------------------------- *)

UpperLetters == "ABCDEFGHIJKLMNOPQRSTUVWXYZ"

LowerLetters == "abcdefghijklmnopqrstuvwxyz"

DigitChars == {"0", "1", "2", "3", "4", "5", "6", "7", "8", "9"}

HexDigitChars == DigitChars \cup {"a", "b", "c", "d", "e", "f"}

WhiteSpace == {" ", "\t", "\n", "\r"}

LineTerminators == {"\n", "\r"}

LowerChar(c) ==
  IF \E i \in 1..26 : Char(UpperLetters, i) = c
  THEN Char(LowerLetters, CHOOSE i \in 1..26 : Char(UpperLetters, i) = c)
  ELSE c

RECURSIVE toLowerCase(_)
\* String.prototype.toLowerCase
toLowerCase(s) ==
  IF s = "" THEN "" ELSE LowerChar(Char(s, 1)) \o toLowerCase(Tail(s))

RECURSIVE trimStart(_)
trimStart(s) ==
  IF s # "" /\ Char(s, 1) \in WhiteSpace THEN trimStart(Tail(s)) ELSE s

RECURSIVE trimEnd(_)
trimEnd(s) ==
  IF s # "" /\ Char(s, Len(s)) \in WhiteSpace
  THEN trimEnd(SubSeq(s, 1, Len(s) - 1))
  ELSE s

\* String.prototype.trim
trim(s) == trimEnd(trimStart(s))

\* [\w-]
IsWordOrDash(c) ==
  \/ c \in DigitChars \cup {"_", "-"}
  \/ \E i \in 1..26 : c = Char(LowerLetters, i) \/ c = Char(UpperLetters, i)

\* One alternative  name\(.*\)  of CSS_COLOR_RE: the opening text, any
\* characters but line terminators, a closing parenthesis at the end.
MatchesFunctional(t, open) ==
  /\ StartsWith(t, open)
  /\ Len(t) >= Len(open) + 1
  /\ Char(t, Len(t)) = ")"
  /\ \A i \in (Len(open) + 1)..(Len(t) - 1) : Char(t, i) \notin LineTerminators

\* The alternative  #([0-9a-f]{3,8})  of CSS_COLOR_RE (flag i).
MatchesHex(t) ==
  /\ StartsWith(t, "#")
  /\ (Len(t) - 1) \in 3..8
  /\ \A i \in 2..Len(t) : LowerChar(Char(t, i)) \in HexDigitChars

\* The alternative  var\(--[\w-]+\)  of CSS_COLOR_RE.
MatchesVar(t) ==
  /\ StartsWith(t, "var(--")
  /\ Len(t) >= 8
  /\ Char(t, Len(t)) = ")"
  /\ \A i \in 7..(Len(t) - 1) : IsWordOrDash(Char(t, i))

\* CSS_COLOR_RE.test(t); the flag i makes every literal case-insensitive.
CSS_COLOR_RE(t) ==
  LET u == toLowerCase(t) IN
    \/ MatchesHex(t)
    \/ MatchesFunctional(u, "rgb(")
    \/ MatchesFunctional(u, "rgba(")
    \/ MatchesFunctional(u, "hsl(")
    \/ MatchesFunctional(u, "hsla(")
    \/ MatchesFunctional(u, "oklch(")
    \/ MatchesVar(u)
    \/ u \in {"transparent", "currentcolor", "inherit", "initial", "unset",
              "revert"}

NAMED_COLORS == {
  "black", "silver", "gray", "grey", "white", "maroon", "red", "purple",
  "fuchsia", "green", "lime", "olive", "yellow", "navy", "blue", "teal",
  "aqua", "orange", "aliceblue", "antiquewhite", "aquamarine", "azure",
  "beige", "bisque", "blanchedalmond", "blueviolet", "brown", "burlywood",
  "cadetblue", "chartreuse", "chocolate", "coral", "cornflowerblue",
  "cornsilk", "crimson", "cyan", "darkblue", "darkcyan", "darkgoldenrod",
  "darkgray", "darkgreen", "darkgrey", "darkkhaki", "darkmagenta",
  "darkolivegreen", "darkorange", "darkorchid", "darkred", "darksalmon",
  "darkseagreen", "darkslateblue", "darkslategray", "darkslategrey",
  "darkturquoise", "darkviolet", "deeppink", "deepskyblue", "dimgray",
  "dimgrey", "dodgerblue", "firebrick", "floralwhite", "forestgreen",
  "gainsboro", "ghostwhite", "gold", "goldenrod", "greenyellow",
  "honeydew", "hotpink", "indianred", "indigo", "ivory", "khaki",
  "lavender", "lavenderblush", "lawngreen", "lemonchiffon", "lightblue",
  "lightcoral", "lightcyan", "lightgoldenrodyellow", "lightgray",
  "lightgreen", "lightgrey", "lightpink", "lightsalmon", "lightseagreen",
  "lightskyblue", "lightslategray", "lightslategrey", "lightsteelblue",
  "lightyellow", "limegreen", "linen", "magenta", "mediumaquamarine",
  "mediumblue", "mediumorchid", "mediumpurple", "mediumseagreen",
  "mediumslateblue", "mediumspringgreen", "mediumturquoise",
  "mediumvioletred", "midnightblue", "mintcream", "mistyrose", "moccasin",
  "navajowhite", "oldlace", "olivedrab", "orangered", "orchid",
  "palegoldenrod", "palegreen", "paleturquoise", "palevioletred",
  "papayawhip", "peachpuff", "peru", "pink", "plum", "powderblue",
  "rosybrown", "royalblue", "saddlebrown", "salmon", "sandybrown",
  "seagreen", "seashell", "sienna", "skyblue", "slateblue", "slategray",
  "slategrey", "snow", "springgreen", "steelblue", "tan", "thistle",
  "tomato", "turquoise", "violet", "wheat", "whitesmoke", "yellowgreen",
  "rebeccapurple"
}

isValidCSSColor(value) ==
  IF value.kind # "str"
  THEN FALSE
  ELSE LET trimmed == toLowerCase(trim(value.val)) IN
         CSS_COLOR_RE(trimmed) \/ trimmed \in NAMED_COLORS

(* ---------------------------------------------------------------------- *)
(* The token registry's names (poetic-tokens.js), as the validator and    *)
(* the compiler read them                                                 *)
(* ---------------------------------------------------------------------- *)

\* Object.keys(spatialTokens)
SPATIAL_TOKEN_NAMES == <<"sparsa", "svasa", "vicara", "vistara">>

\* Object.keys(communicativeTokens)
COMMUNICATIVE_TOKEN_NAMES == <<"ahvana", "raksa", "sthiti", "ullasa">>

\* Object.keys(voiceTokens)
VOICE_TOKEN_NAMES == <<"japa", "katha", "ghosana">>

Range(seq) == {seq[i] : i \in 1..Len(seq)}

\* One token definition object of the lookup tables.
TokenDef(sanskrit, devanagari, intent, markerIntegration, defaultValue, cssProperty) ==
  Obj(<<KV("sanskrit", Str(sanskrit)), KV("devanagari", Str(devanagari)),
        KV("intent", Str(intent)),
        KV("markerIntegration", Str(markerIntegration)),
        KV("defaultValue", Str(defaultValue)),
        KV("cssProperty", Str(cssProperty))>>)

\* The token definition objects as the module creates them, by name.
InitialTokens ==
  [n \in Range(SPATIAL_TOKEN_NAMES) \cup Range(COMMUNICATIVE_TOKEN_NAMES)
         \cup Range(VOICE_TOKEN_NAMES) |->
    CASE n = "sparsa" ->
        TokenDef("sparsa", "s_pr_s",
                 "Touch - intimate contact, deliberately close",
                 "At decision points: potential M6 (cognitive overload)",
                 "0.125rem", "--bodhi-akasa-sparsa")
      [] n = "svasa" ->
        TokenDef("svasa", "s_vas",
                 "Breath - just enough room to exist separately",
                 "Default micro-spacing",
                 "0.5rem", "--bodhi-akasa-svasa")
      [] n = "vicara" ->
        TokenDef("vicara", "vicar",
                 "Contemplation - space inviting the mind to process",
                 "At checkout: supports decision quality",
                 "1rem", "--bodhi-akasa-vicara")
      [] n = "vistara" ->
        TokenDef("vistara", "vis_tar",
                 "Expanse - deliberate openness for decision to form",
                 "After urgency cues: counteracts M1",
                 "2rem", "--bodhi-akasa-vistara")
      [] n = "ahvana" ->
        TokenDef("ahvana", "ah_van",
                 "Invitation - invites action without demanding it",
                 "On cancel: potential M7 (if asymmetric with confirm)",
                 "var(--bodhi-varna-primary)", "--bodhi-varna-ahvana")
      [] n = "raksa" ->
        TokenDef("raksa", "rk_sa",
                 "Protection - warns, guards, prevents",
                 "On irreversible actions: appropriate",
                 "var(--bodhi-varna-danger)", "--bodhi-varna-raksa")
      [] n = "sthiti" ->
        TokenDef("sthiti", "s_titi",
                 "Steadiness - grounds, stabilizes, recedes",
                 "Default surface color",
                 "var(--bodhi-varna-surface)", "--bodhi-varna-sthiti")
      [] n = "ullasa" ->
        TokenDef("ullasa", "ul_las",
                 "Delight - celebrates, rewards, affirms",
                 "Post-action confirmation",
                 "var(--bodhi-varna-success)", "--bodhi-varna-ullasa")
      [] n = "japa" ->
        TokenDef("japa", "jp",
                 "Murmur - fine print, supporting detail",
                 "Marketing text + japa for terms: potential M4",
                 "0.75rem", "--bodhi-lipi-japa")
      [] n = "katha" ->
        TokenDef("katha", "kta",
                 "Storytelling - body text, natural voice",
                 "Default content voice",
                 "1rem", "--bodhi-lipi-katha")
      [] n = "ghosana" ->
        TokenDef("ghosana", "gosna",
                 "Proclamation - headings, carrying voice",
                 "Terms text + ghosana for marketing: reversed M4",
                 "1.5rem", "--bodhi-lipi-ghosana")]

\* An object whose entries refer to the token definition objects of heap.
TokenTable(names, heap) == Obj([i \in 1..Len(names) |-> KV(names[i], heap[names[i]])])

spatialTokens(heap) == TokenTable(SPATIAL_TOKEN_NAMES, heap)

communicativeTokens(heap) == TokenTable(COMMUNICATIVE_TOKEN_NAMES, heap)

voiceTokens(heap) == TokenTable(VOICE_TOKEN_NAMES, heap)

\* const ALL_TOKENS = { ...spatialTokens, ...communicativeTokens, ...voiceTokens }
ALL_TOKENS(heap) ==
  TokenTable(SPATIAL_TOKEN_NAMES \o COMMUNICATIVE_TOKEN_NAMES \o VOICE_TOKEN_NAMES,
             heap)

Returned(v) == [outcome |-> "return", value |-> v]

Thrown(what) == [outcome |-> "throw", value |-> Str(what)]

\* resolveToken(tokenName, brandOverrides = {})
resolveToken(heap, tokenName, brandOverrides) ==
  LET token == Get(ALL_TOKENS(heap), tokenName)
      overrides == IF brandOverrides.kind = "undefined" THEN Obj(<<>>)
                   ELSE brandOverrides
  IN IF ~Truthy(token)
     THEN Thrown("Unknown Bodhi token")
     ELSE IF Get(overrides, tokenName).kind # "undefined"
     THEN Returned(Get(overrides, tokenName))
     ELSE Returned(Get(token, "defaultValue"))

\* getAllTokens(): a new object whose entries are the same token definition
\* objects; per name, what the caller's copy holds.
getAllTokens(heap) ==
  [held |-> TRUE, entries |-> [n \in DOMAIN heap |-> "token"]]

\* obj with its own property k set to v.
SetField(obj, k, v) ==
  IF HasOwn(obj, k)
  THEN [obj EXCEPT !.kids =
          [i \in 1..Len(obj.kids) |->
             IF obj.kids[i].key = k THEN KV(k, v) ELSE obj.kids[i]]]
  ELSE [obj EXCEPT !.kids = Append(obj.kids, KV(k, v))]

(* ---------------------------------------------------------------------- *)
(* The schema validator (rupa-validator.js)                               *)
(* ---------------------------------------------------------------------- *)

REQUIRED_CATEGORIES == <<"varna", "lipi", "akasa">>

OPTIONAL_CATEGORIES ==
  <<"pramana", "sima", "chaya", "pratima", "calana", "ghanatva", "yukti">>

ALL_CATEGORIES == REQUIRED_CATEGORIES \o OPTIONAL_CATEGORIES

METADATA_FIELDS == <<"name", "version", "$schema">>

\* The messages of the validator, by what they say: type is the sentence,
\* name the category, key or path it names, text the offending value.
Message(type, name, text) == [type |-> type, name |-> name, text |-> text]

RECURSIVE validateColorValuesFrom(_, _, _)
\* The errors pushed by the loop of validateColorValues from its i-th entry.
validateColorValuesFrom(obj, path, i) ==
  IF i > Len(obj.kids)
  THEN <<>>
  ELSE LET key == obj.kids[i].key
           value == obj.kids[i].value
           fullPath == path \o "." \o key
           pushed ==
             IF key = "dark"
             THEN <<>>
             ELSE IF IsObject(value)
             THEN validateColorValuesFrom(value, fullPath, 1)
             ELSE IF value.kind = "str" /\ ~isValidCSSColor(value)
             THEN <<Message("invalid-color", fullPath, value.val)>>
             ELSE <<>>
       IN pushed \o validateColorValuesFrom(obj, path, i + 1)

\* validateColorValues(obj, path, errors): the errors it pushes, in order.
validateColorValues(obj, path) == validateColorValuesFrom(obj, path, 1)

\* The loop over Object.keys(rupa): the unknown top-level key warnings.
UnknownKeyWarnings(rupa) ==
  ConcatAll([i \in 1..Len(rupa.kids) |->
    IF rupa.kids[i].key \notin Range(ALL_CATEGORIES \o METADATA_FIELDS)
    THEN <<Message("unknown-top-level-key-ignored", rupa.kids[i].key, "")>>
    ELSE <<>>])

\* The loop over REQUIRED_CATEGORIES.
MissingRequiredErrors(rupa) ==
  ConcatAll([i \in 1..Len(REQUIRED_CATEGORIES) |->
    IF ~Truthy(Get(rupa, REQUIRED_CATEGORIES[i]))
    THEN <<Message("missing-required-category", REQUIRED_CATEGORIES[i], "")>>
    ELSE <<>>])

\* The loop over OPTIONAL_CATEGORIES.
MissingOptionalWarnings(rupa) ==
  ConcatAll([i \in 1..Len(OPTIONAL_CATEGORIES) |->
    IF ~Truthy(Get(rupa, OPTIONAL_CATEGORIES[i]))
    THEN <<Message("optional-category-defaults", OPTIONAL_CATEGORIES[i], "")>>
    ELSE <<>>])

\* The block "Validate varna (color values)".
VarnaColorErrors(rupa) ==
  LET varna == Get(rupa, "varna") IN
    IF Truthy(varna) /\ IsObject(varna)
    THEN validateColorValues(varna, "varna")
         \o (LET dark == Get(varna, "dark") IN
               IF Truthy(dark) /\ IsObject(dark)
               THEN validateColorValues(dark, "varna.dark")
               ELSE <<>>)
    ELSE <<>>

\* The block "Validate lipi voice token names in scale".
LipiScaleWarnings(rupa) ==
  LET lipi == Get(rupa, "lipi") IN
    IF Truthy(lipi) /\ IsObject(lipi)
       /\ Truthy(Get(lipi, "scale")) /\ IsObject(Get(lipi, "scale"))
    THEN LET scale == Get(lipi, "scale") IN
           ConcatAll([i \in 1..Len(scale.kids) |->
             IF scale.kids[i].key \notin Range(VOICE_TOKEN_NAMES)
             THEN <<Message("unrecognized-voice-token", scale.kids[i].key, "")>>
             ELSE <<>>])
    ELSE <<>>

\* The block "Validate akasa spatial token names".
AkasaWarnings(rupa) ==
  LET akasa == Get(rupa, "akasa") IN
    IF Truthy(akasa) /\ IsObject(akasa)
    THEN ConcatAll([i \in 1..Len(akasa.kids) |->
           IF akasa.kids[i].key \notin Range(SPATIAL_TOKEN_NAMES)
           THEN <<Message("unrecognized-spatial-token", akasa.kids[i].key, "")>>
           ELSE <<>>])
    ELSE <<>>

\* A validator that reports every file valid, whatever errors it found:
\* the compiler run on it writes files that have errors.
validateRupaLenient(rupa) ==
  IF rupa.kind # "obj"
  THEN [valid |-> TRUE,
        errors |-> <<Message("not-a-json-object", "", "")>>,
        warnings |-> <<>>]
  ELSE [valid |-> TRUE,
        errors |-> MissingRequiredErrors(rupa) \o VarnaColorErrors(rupa),
        warnings |-> UnknownKeyWarnings(rupa) \o MissingOptionalWarnings(rupa)
                     \o LipiScaleWarnings(rupa) \o AkasaWarnings(rupa)]

\* A validator that makes errors of the unknown keys.
validateRupaStrict(rupa) ==
  IF rupa.kind # "obj"
  THEN [valid |-> FALSE,
        errors |-> <<Message("not-a-json-object", "", "")>>,
        warnings |-> <<>>]
  ELSE [valid |-> Len(MissingRequiredErrors(rupa) \o VarnaColorErrors(rupa)
                      \o UnknownKeyWarnings(rupa) \o LipiScaleWarnings(rupa)
                      \o AkasaWarnings(rupa)) = 0,
        errors |-> MissingRequiredErrors(rupa) \o VarnaColorErrors(rupa)
                   \o UnknownKeyWarnings(rupa) \o LipiScaleWarnings(rupa)
                   \o AkasaWarnings(rupa),
        warnings |-> MissingOptionalWarnings(rupa)]

\* validateRupa(rupa): { valid, errors, warnings }
validateRupa(rupa) ==
  IF rupa.kind # "obj"
  THEN [valid |-> FALSE,
        errors |-> <<Message("not-a-json-object", "", "")>>,
        warnings |-> <<>>]
  ELSE LET errors == MissingRequiredErrors(rupa) \o VarnaColorErrors(rupa)
           warnings == UnknownKeyWarnings(rupa)
                       \o MissingOptionalWarnings(rupa)
                       \o LipiScaleWarnings(rupa)
                       \o AkasaWarnings(rupa)
       IN [valid |-> Len(errors) = 0, errors |-> errors, warnings |-> warnings]

(* ---------------------------------------------------------------------- *)
(* WCAG contrast utilities (contrast.js, printed in rupa-validator.js)    *)
(*                                                                        *)
(* Luminance is an integer in units of 1e-7. A lightness is a fraction    *)
(* [k, n] of 1: the search's candidates have n = LightnessSteps, the      *)
(* lightness of a parsed colour has n = 510. A hue and a saturation are   *)
(* kept as the integers hexToHSL computes them from: H and d with         *)
(* 6 * hue = H / d, and saturation = d / sd.                              *)
(* ---------------------------------------------------------------------- *)

NaN == 0 - 1

HexChars == "0123456789abcdef"

IsHexChar(c) == LowerChar(c) \in HexDigitChars

HexVal(c) == (CHOOSE i \in 1..16 : Char(HexChars, i) = LowerChar(c)) - 1

Min(a, b) == IF a < b THEN a ELSE b

Max(a, b) == IF a > b THEN a ELSE b

Abs(a) == IF a < 0 THEN 0 - a ELSE a

\* String.prototype.substr(start, length)
substr(s, start, length) ==
  IF start >= Len(s) THEN "" ELSE SubSeq(s, start + 1, Min(start + length, Len(s)))

\* parseInt(s, 16) of at most two characters: the hex digits s begins with,
\* NaN when it begins with none. (Signs, blanks and a 0x prefix, which
\* parseInt also reads, do not occur in the colours of the model.)
parseInt16(s) ==
  IF s = "" \/ ~IsHexChar(Char(s, 1)) THEN NaN
  ELSE IF Len(s) = 1 \/ ~IsHexChar(Char(s, 2)) THEN HexVal(Char(s, 1))
  ELSE 16 * HexVal(Char(s, 1)) + HexVal(Char(s, 2))

RECURSIVE removeFirstHash(_)
\* hex.replace('#', '')
removeFirstHash(s) ==
  IF s = "" THEN ""
  ELSE IF Char(s, 1) = "#" THEN Tail(s)
  ELSE Char(s, 1) \o removeFirstHash(Tail(s))

\* The three-digit shorthand doubled, other digits as they are.
expandShorthand(hexValue) ==
  IF Len(hexValue) = 3
  THEN Char(hexValue, 1) \o Char(hexValue, 1) \o Char(hexValue, 2)
       \o Char(hexValue, 2) \o Char(hexValue, 3) \o Char(hexValue, 3)
  ELSE hexValue

\* The hex digits relativeLuminance and hexToHSL read: '#' removed, the
\* shorthand doubled.
normalizeHex(hex) == expandShorthand(removeFirstHash(hex))

\* The channels r, g, b that parseInt reads from the digits, each 0..255
\* or NaN.
channelsOf(hexValue) ==
  [r |-> parseInt16(substr(hexValue, 0, 2)),
   g |-> parseInt16(substr(hexValue, 2, 2)),
   b |-> parseInt16(substr(hexValue, 4, 2))]

hexChannels(hex) == channelsOf(normalizeHex(hex))

LuminanceR == <<
  0, 645, 1291, 1936, 2581, 3226, 3872, 4517, 5162, 5808, 6453, 7115, 7816,
  8557, 9336, 10156, 11016, 11917, 12860, 13845, 14872, 15943, 17057,
  18216, 19419, 20667, 21961, 23301, 24688, 26121, 27602, 29131, 30708,
  32333, 34008, 35732, 37507, 39331, 41207, 43133, 45112, 47142, 49224,
  51359, 53547, 55789, 58084, 60434, 62838, 65297, 67811, 70381, 73006,
  75688, 78427, 81222, 84075, 86986, 89954, 92981, 96066, 99210, 102413,
  105676, 108999, 112382, 115825, 119329, 122894, 126521, 130209, 133959,
  137772, 141647, 145585, 149586, 153650, 157778, 161970, 166226, 170547,
  174933, 179384, 183900, 188482, 193129, 197843, 202624, 207471, 212385,
  217366, 222415, 227531, 232716, 237968, 243290, 248680, 254139, 259667,
  265265, 270933, 276670, 282478, 288356, 294306, 300326, 306417, 312580,
  318815, 325121, 331500, 337951, 344474, 351071, 357741, 364484, 371300,
  378191, 385155, 392194, 399307, 406495, 413758, 421095, 428509, 435997,
  443562, 451203, 458919, 466713, 474583, 482529, 490553, 498655, 506833,
  515090, 523424, 531837, 540327, 548897, 557545, 566272, 575078, 583964,
  592929, 601974, 611099, 620304, 629590, 638956, 648403, 657931, 667540,
  677230, 687002, 696856, 706792, 716810, 726910, 737093, 747358, 757707,
  768138, 778653, 789251, 799933, 810699, 821549, 832483, 843502, 854605,
  865793, 877066, 888424, 899867, 911396, 923011, 934711, 946498, 958371,
  970330, 982376, 994508, 1006728, 1019035, 1031429, 1043910, 1056480,
  1069137, 1081882, 1094715, 1107637, 1120647, 1133746, 1146933, 1160210,
  1173576, 1187032, 1200577, 1214211, 1227936, 1241751, 1255656, 1269651,
  1283737, 1297914, 1312181, 1326540, 1340990, 1355531, 1370164, 1384888,
  1399705, 1414613, 1429614, 1444707, 1459893, 1475171, 1490543, 1506007,
  1521564, 1537215, 1552960, 1568798, 1584729, 1600755, 1616875, 1633089,
  1649398, 1665801, 1682299, 1698892, 1715580, 1732364, 1749243, 1766217,
  1783287, 1800452, 1817714, 1835072, 1852526, 1870077, 1887725, 1905469,
  1923310, 1941248, 1959283, 1977416, 1995646, 2013974, 2032399, 2050923,
  2069545, 2088265, 2107083, 2126000
>>

\* 0.7152 * sRGBtoLinear(c) in units of 1e-7.
LuminanceG == <<
  0, 2171, 4342, 6512, 8683, 10854, 13025, 15196, 17367, 19537, 21708,
  23934, 26294, 28785, 31408, 34165, 37058, 40090, 43261, 46574, 50031,
  53633, 57382, 61279, 65327, 69526, 73879, 78387, 83051, 87873, 92855,
  97997, 103302, 108771, 114405, 120206, 126175, 132314, 138623, 145104,
  151758, 158588, 165593, 172775, 180136, 187677, 195399, 203303, 211390,
  219663, 228120, 236765, 245598, 254621, 263833, 273238, 282835, 292625,
  302611, 312793, 323172, 333749, 344525, 355501, 366679, 378059, 389643,
  401431, 413424, 425624, 438032, 450648, 463473, 476509, 489756, 503215,
  516888, 530775, 544878, 559196, 573732, 588486, 603459, 618651, 634065,
  649700, 665558, 681639, 697945, 714476, 731233, 748217, 765429, 782870,
  800541, 818442, 836574, 854939, 873536, 892368, 911434, 930736, 950274,
  970050, 990063, 1010315, 1030807, 1051539, 1072512, 1093728, 1115186,
  1136888, 1158834, 1181025, 1203463, 1226147, 1249078, 1272258, 1295687,
  1319365, 1343294, 1367474, 1391907, 1416592, 1441530, 1466723, 1492171,
  1517874, 1543834, 1570051, 1596526, 1623260, 1650253, 1677506, 1705019,
  1732795, 1760832, 1789132, 1817696, 1846524, 1875617, 1904975, 1934600,
  1964492, 1994652, 2025080, 2055777, 2086744, 2117981, 2149489, 2181269,
  2213322, 2245647, 2278247, 2311120, 2344269, 2377693, 2411394, 2445372,
  2479627, 2514161, 2548974, 2584066, 2619439, 2655092, 2691027, 2727244,
  2763743, 2800526, 2837593, 2874945, 2912582, 2950505, 2988714, 3027210,
  3065994, 3105067, 3144428, 3184079, 3224020, 3264252, 3304775, 3345590,
  3386697, 3428098, 3469792, 3511781, 3554065, 3596644, 3639519, 3682691,
  3726160, 3769927, 3813993, 3858357, 3903021, 3947986, 3993250, 4038817,
  4084685, 4130855, 4177329, 4224106, 4271187, 4318573, 4366264, 4414261,
  4462565, 4511175, 4560093, 4609319, 4658853, 4708697, 4758850, 4809313,
  4860088, 4911173, 4962571, 5014281, 5066304, 5118640, 5171290, 5224255,
  5277535, 5331131, 5385043, 5439271, 5493817, 5548681, 5603862, 5659363,
  5715183, 5771323, 5827783, 5884564, 5941666, 5999091, 6056837, 6114907,
  6173300, 6232018, 6291059, 6350426, 6410118, 6470137, 6530482, 6591153,
  6652153, 6713480, 6775136, 6837121, 6899436, 6962081, 7025056, 7088362,
  7152000
>>

\* 0.0722 * sRGBtoLinear(c) in units of 1e-7.
LuminanceB == <<
  0, 219, 438, 657, 877, 1096, 1315, 1534, 1753, 1972, 2191, 2416, 2654,
  2906, 3171, 3449, 3741, 4047, 4367, 4702, 5051, 5414, 5793, 6186, 6595,
  7019, 7458, 7913, 8384, 8871, 9374, 9893, 10428, 10981, 11549, 12135,
  12737, 13357, 13994, 14648, 15320, 16010, 16717, 17442, 18185, 18946,
  19726, 20524, 21340, 22175, 23029, 23902, 24793, 25704, 26634, 27584,
  28552, 29541, 30549, 31577, 32624, 33692, 34780, 35888, 37017, 38165,
  39335, 40525, 41736, 42967, 44220, 45493, 46788, 48104, 49441, 50800,
  52180, 53582, 55006, 56451, 57919, 59408, 60920, 62453, 64009, 65588,
  67189, 68812, 70458, 72127, 73819, 75533, 77271, 79031, 80815, 82622,
  84453, 86307, 88184, 90085, 92010, 93959, 95931, 97927, 99948, 101992,
  104061, 106154, 108271, 110413, 112579, 114770, 116985, 119225, 121491,
  123780, 126095, 128435, 130801, 133191, 135607, 138048, 140514, 143006,
  145524, 148067, 150636, 153231, 155851, 158498, 161171, 163869, 166594,
  169346, 172123, 174927, 177757, 180614, 183498, 186408, 189345, 192309,
  195299, 198317, 201362, 204433, 207532, 210658, 213812, 216993, 220201,
  223437, 226700, 229991, 233309, 236656, 240030, 243432, 246862, 250320,
  253807, 257321, 260863, 264434, 268034, 271661, 275317, 279002, 282715,
  286457, 290228, 294027, 297856, 301713, 305599, 309515, 313459, 317432,
  321435, 325467, 329529, 333620, 337740, 341890, 346069, 350278, 354517,
  358786, 363084, 367412, 371771, 376159, 380577, 385026, 389504, 394013,
  398552, 403122, 407722, 412352, 417013, 421705, 426427, 431180, 435963,
  440778, 445623, 450499, 455407, 460345, 465314, 470315, 475347, 480410,
  485504, 490630, 495787, 500975, 506196, 511447, 516731, 522046, 527393,
  532771, 538182, 543624, 549099, 554605, 560144, 565714, 571317, 576952,
  582620, 588319, 594051, 599816, 605613, 611442, 617305, 623200, 629127,
  635087, 641080, 647106, 653165, 659257, 665382, 671540, 677731, 683955,
  690213, 696503, 702827, 709185, 715576, 722000
>>

\* The luminance of channels, in units of 1e-7; NaN when a channel is NaN.
luminanceOf(c) ==
  IF c.r = NaN \/ c.g = NaN \/ c.b = NaN THEN NaN
  ELSE LuminanceR[c.r + 1] + LuminanceG[c.g + 1] + LuminanceB[c.b + 1]

\* relativeLuminance(hex)
relativeLuminance(hex) == luminanceOf(hexChannels(hex))

\* 0.05 in units of 1e-7.
LuminanceOffset == 500000

\* (lighter + 0.05) / (darker + 0.05) as the ratio num / den, or NaN.
ratioOf(L1, L2) ==
  IF L1 = NaN \/ L2 = NaN
  THEN [nan |-> TRUE, num |-> 0, den |-> 1]
  ELSE [nan |-> FALSE, num |-> Max(L1, L2) + LuminanceOffset,
        den |-> Min(L1, L2) + LuminanceOffset]

\* contrastRatio(color1, color2)
contrastRatio(color1, color2) ==
  ratioOf(relativeLuminance(color1), relativeLuminance(color2))

\* ratio < tenths / 10 (false of NaN)
RatioBelow(ratio, tenths) == ~ratio.nan /\ 10 * ratio.num < tenths * ratio.den

\* ratio >= tenths / 10 (false of NaN)
RatioAtLeast(ratio, tenths) == ~ratio.nan /\ 10 * ratio.num >= tenths * ratio.den

\* Math.abs(ratio - tenths / 10) < 0.1
RatioNear(ratio, tenths) ==
  /\ ~ratio.nan
  /\ 10 * ratio.num < (tenths + 1) * ratio.den
  /\ 10 * ratio.num > (tenths - 1) * ratio.den

\* A number of tenths as a decimal with one digit after the point.
tenthsText(t) == ToString(t \div 10) \o "." \o ToString(t % 10)

\* ratio.toFixed(1)
toFixed1(ratio) ==
  IF ratio.nan THEN "NaN"
  ELSE tenthsText((20 * ratio.num + ratio.den) \div (2 * ratio.den))

\* meetsContrast(foreground, background, target)
meetsContrast(foreground, background, target) ==
  RatioAtLeast(contrastRatio(foreground, background), target)

\* The hue, saturation and lightness of channels c with greatest channel
\* max and least channel min.
hslOf(c, max, min) ==
  [H |-> IF max = min THEN 0
         ELSE IF max = c.r
         THEN (c.g - c.b) + (IF c.g < c.b THEN 6 * (max - min) ELSE 0)
         ELSE IF max = c.g THEN (c.b - c.r) + 2 * (max - min)
         ELSE (c.r - c.g) + 4 * (max - min),
   d |-> max - min,
   sd |-> IF max = min THEN 1
          ELSE IF max + min > 255 THEN 510 - max - min ELSE max + min,
   k |-> max + min,
   n |-> 510]

hslOfChannels(c) == hslOf(c, Max(c.r, Max(c.g, c.b)), Min(c.r, Min(c.g, c.b)))

\* hexToHSL(hex)
hexToHSL(hex) == hslOfChannels(hexChannels(hex))

\* Two hex digits of a channel 0..255.
hexPair(v) == Char(HexChars, (v \div 16) + 1) \o Char(HexChars, (v % 16) + 1)

\* The inner toHex of hslToHex: Math.round(v * 255) for v = num / den, as
\* two hex digits.
toHex(num, den) == hexPair((2 * 255 * num + den) \div (2 * den))

\* The colour of the sector of the hue, from c + m, x + m and m, each a
\* numerator over den.
hexOfSector(sector, c, x, zero, den) ==
  CASE sector = 0 -> "#" \o toHex(c, den) \o toHex(x, den) \o toHex(zero, den)
    [] sector = 1 -> "#" \o toHex(x, den) \o toHex(c, den) \o toHex(zero, den)
    [] sector = 2 -> "#" \o toHex(zero, den) \o toHex(c, den) \o toHex(x, den)
    [] sector = 3 -> "#" \o toHex(zero, den) \o toHex(x, den) \o toHex(c, den)
    [] sector = 4 -> "#" \o toHex(x, den) \o toHex(zero, den) \o toHex(c, den)
    [] OTHER -> "#" \o toHex(c, den) \o toHex(zero, den) \o toHex(x, den)

\* hslToHex with cn / n = 1 - |2l - 1| and q / d = 1 - |(6h mod 2) - 1|
hslToHexWith(hsl, k, n, cn, q) ==
  hexOfSector(IF hsl.d = 0 THEN 0 ELSE hsl.H \div hsl.d,
              cn * hsl.d + 2 * k * hsl.sd,
              2 * cn * q + 2 * k * hsl.sd - cn * hsl.d,
              2 * k * hsl.sd - cn * hsl.d,
              2 * n * hsl.sd)

\* hslToHex(h, s, l) for the hue and saturation of hsl and the lightness k/n
hslToHex(hsl, k, n) ==
  hslToHexWith(hsl, k, n, n - Abs(2 * k - n),
               IF hsl.d = 0 THEN 0
               ELSE hsl.d - Abs((hsl.H % (2 * hsl.d)) - hsl.d))

\* The lightness range 0..100 of the search, in steps of 100 / 1024: ten
\* halvings of the range stay whole numbers of steps.
LightnessSteps == 1024

maxIterations == 50

\* The loop condition with the interval compared to nothing.
WiderThanNothing(lower, upper) == upper - lower > 0

\* maxL - minL > 0.1, for bounds in steps
WiderThanTenth(minL, maxL) == (maxL - minL) * 1000 > LightnessSteps

RECURSIVE searchLightness(_, _, _, _, _, _, _, _)
RECURSIVE searchStep(_, _, _, _, _, _, _, _, _, _)
\* The while loop of adjustForContrast: the bestL it ends with, as [k, n].
searchLightness(hsl, background, target, shouldLighten, minL, maxL, bestL, iterations) ==
  IF ~(iterations < maxIterations /\ WiderThanTenth(minL, maxL))
  THEN bestL
  ELSE searchStep(hsl, background, target, shouldLighten, minL, maxL, bestL,
                  iterations, (minL + maxL) \div 2,
                  contrastRatio(hslToHex(hsl, (minL + maxL) \div 2, LightnessSteps),
                                background))

\* One pass of the loop body, for the candidate testL and its ratio.
searchStep(hsl, background, target, shouldLighten, minL, maxL, bestL, iterations, testL, ratio) ==
  IF RatioNear(ratio, target)
  THEN [k |-> testL, n |-> LightnessSteps]
  ELSE IF RatioBelow(ratio, target)
  THEN IF shouldLighten
       THEN searchLightness(hsl, background, target, shouldLighten,
                            testL, maxL, bestL, iterations + 1)
       ELSE searchLightness(hsl, background, target, shouldLighten,
                            minL, testL, bestL, iterations + 1)
  ELSE IF shouldLighten
       THEN searchLightness(hsl, background, target, shouldLighten,
                            minL, testL, [k |-> testL, n |-> LightnessSteps],
                            iterations + 1)
       ELSE searchLightness(hsl, background, target, shouldLighten,
                            testL, maxL, [k |-> testL, n |-> LightnessSteps],
                            iterations + 1)

\* The colour of hsl at the lightness bestL.
colorAt(hsl, bestL) == hslToHex(hsl, bestL.k, bestL.n)

\* The adjusted colour the search for hsl ends with.
searchedColor(hsl, background, target) ==
  colorAt(hsl,
          searchLightness(hsl, background, target,
                          relativeLuminance(background) < 5000000,
                          0, LightnessSteps, [k |-> hsl.k, n |-> hsl.n], 0))

\* A search result handed out without the final verification.
unverified(adjustedColor, background, target) == Str(adjustedColor)

\* The final verification: the colour, or null where it fails the target.
verified(adjustedColor, background, target) ==
  IF meetsContrast(adjustedColor, background, target)
  THEN Str(adjustedColor)
  ELSE Null

\* adjustForContrast without the early return for a passing colour.
adjustForContrastAlwaysSearching(foreground, background, target) ==
  verified(searchedColor(hexToHSL(foreground), background, target), background, target)

\* adjustForContrast(foreground, background, target): a string, or null
adjustForContrast(foreground, background, target) ==
  IF meetsContrast(foreground, background, target)
  THEN Str(foreground)
  ELSE verified(searchedColor(hexToHSL(foreground), background, target),
                background, target)

(* ---------------------------------------------------------------------- *)
(* The stylesheet generators of `bodhi token compile` (token.js)          *)
(*                                                                        *)
(* Texts are written in ASCII: every character outside ASCII stands as    *)
(* one ASCII character (a rule as "=" or "-", an arrow as ">", a letter   *)
(* without its diacritic, a Devanagari sign as a Latin letter), so that   *)
(* every length is the one the program computes.                          *)
(* ---------------------------------------------------------------------- *)

\* s[i - 1], the empty string beyond the end
At(s, i) == IF i \in 1..Len(s) THEN SubSeq(s, i, i) ELSE ""

RECURSIVE Repeat(_, _)
\* String.prototype.repeat
Repeat(s, n) == IF n <= 0 THEN "" ELSE s \o Repeat(s, n - 1)

RECURSIVE Join(_, _)
\* Array.prototype.join
Join(lines, sep) ==
  IF lines = <<>> THEN ""
  ELSE IF Len(lines) = 1 THEN lines[1]
  ELSE Join(SubSeq(lines, 1, Len(lines) \div 2), sep) \o sep
       \o Join(SubSeq(lines, Len(lines) \div 2 + 1, Len(lines)), sep)

\* String.prototype.padEnd
padEnd(s, n) == s \o Repeat(" ", n - Len(s))

\* String.prototype.slice(start)
slice(s, start) == IF start >= Len(s) THEN "" ELSE SubSeq(s, start + 1, Len(s))

\* Object.entries(v): the entries of an object or array, the indexed
\* characters of a string, nothing of another value. (Only strings of one
\* decimal digit of indices occur.)
Entries(v) ==
  IF v.kind \in {"obj", "arr"} THEN v.kids
  ELSE IF v.kind = "str"
  THEN [i \in 1..Len(v.val) |-> KV(ToString(i - 1), Str(At(v.val, i)))]
  ELSE <<>>

\* The text of a value in a template literal; an array joins its elements.
Text(v) ==
  IF v.kind = "arr"
  THEN Join([i \in 1..Len(v.kids) |->
               IF v.kids[i].value.kind \in {"null", "undefined"} THEN ""
               ELSE String(v.kids[i].value)], ",")
  ELSE String(v)

SECTION_META(category) ==
    CASE category = "varna" ->
        [sanskrit |-> "Varna", devanagari |-> "vr_n", english |-> "Color",
         description |-> "Semantic color roles, not hue names."]
      [] category = "lipi" ->
        [sanskrit |-> "Lipi", devanagari |-> "lipi", english |-> "Typography",
         description |-> "Typeface families, scale, weight, and leading."]
      [] category = "akasa" ->
        [sanskrit |-> "Akasa", devanagari |-> "akas", english |-> "Spacing",
         description |-> "Spatial intent - how much breathing room an element needs."]
      [] category = "pramana" ->
        [sanskrit |-> "Pramana", devanagari |-> "p_rman", english |-> "Sizing",
         description |-> "Widths, heights, and region dimensions."]
      [] category = "sima" ->
        [sanskrit |-> "Sima", devanagari |-> "sima", english |-> "Borders",
         description |-> "Border widths, radii, and focus rings."]
      [] category = "chaya" ->
        [sanskrit |-> "Chaya", devanagari |-> "caya", english |-> "Shadows",
         description |-> "Elevation and depth scale."]
      [] category = "pratima" ->
        [sanskrit |-> "Pratima", devanagari |-> "p_rtima", english |-> "Icons",
         description |-> "Icon set, sizes, and alignment."]
      [] category = "calana" ->
        [sanskrit |-> "Calana", devanagari |-> "cln", english |-> "Motion",
         description |-> "Duration and easing curves."]
      [] category = "ghanatva" ->
        [sanskrit |-> "Ghanatva", devanagari |-> "gnt_v", english |-> "Density",
         description |-> "Compact, comfortable, and spacious modes."]
      [] category = "yukti" ->
        [sanskrit |-> "Yukti", devanagari |-> "yuk_ti", english |-> "Special Treatments",
         description |-> "Per-Yantra treatments and effects."]
      [] category = "nirmana" ->
        [sanskrit |-> "Nirmana", devanagari |-> "nir_man", english |-> "Structural Defaults",
         description |-> "Default appearance for Anga and Mandala components.\nOverride per-brand by changing which tokens are referenced."]

NIRMANA_LABELS ==
  Obj(<<
        KV("siras", Obj(<<KV("sanskrit", Str("Siras")), KV("devanagari", Str("sirs_")),
                       KV("english", Str("Header"))>>)),
        KV("pada", Obj(<<KV("sanskrit", Str("Pada")), KV("devanagari", Str("pad")),
                       KV("english", Str("Footer"))>>)),
        KV("garbha", Obj(<<KV("sanskrit", Str("Garbha")), KV("devanagari", Str("gr_b")),
                       KV("english", Str("Body"))>>)),
        KV("bindu", Obj(<<KV("sanskrit", Str("Bindu")), KV("devanagari", Str("bin_du")),
                       KV("english", Str("Single Focus"))>>)),
        KV("sangraha", Obj(<<KV("sanskrit", Str("Sangraha")), KV("devanagari", Str("sn_g_rh")),
                       KV("english", Str("Collection"))>>)),
        KV("paricaya", Obj(<<KV("sanskrit", Str("Paricaya")), KV("devanagari", Str("pricy")),
                       KV("english", Str("Profile"))>>)),
        KV("card", Obj(<<KV("sanskrit", Str("Card")), KV("devanagari", Null),
                       KV("english", Str("Reusable container"))>>))>>)

DEFAULTS ==
  Obj(<<
    KV("pramana", Obj(<<KV("content-width", Str("65ch")),
                        KV("sidebar-width", Str("16rem")),
                        KV("header-height", Str("3.5rem"))>>)),
    KV("sima", Obj(<<KV("width-thin", Str("1px")),
                     KV("width-medium", Str("2px")),
                     KV("radius-md", Str("0.5rem")),
                     KV("focus-ring", Str("2px solid currentColor"))>>)),
    KV("chaya", Obj(<<KV("sm", Str("0 1px 2px 0 rgba(0, 0, 0, 0.05)")),
                      KV("md", Str("0 4px 6px -1px rgba(0, 0, 0, 0.1)")),
                      KV("lg", Str("0 10px 15px -3px rgba(0, 0, 0, 0.1)"))>>)),
    KV("pratima", Obj(<<>>)),
    KV("calana", Obj(<<KV("duration-normal", Str("200ms")),
                       KV("easing-default", Str("cubic-bezier(0.4, 0, 0.2, 1)"))>>)),
    KV("ghanatva", Obj(<<>>)),
    KV("yukti", Obj(<<>>))>>)

\* A generator's result { lines, count }; threw when it ended in a TypeError.
Generated(lines, count) == [threw |-> FALSE, lines |-> lines, count |-> count]

ThrewTypeError == [threw |-> TRUE, lines |-> <<>>, count |-> 0]

RECURSIVE AssignAll(_, _)
\* Object.assign(target, source)
AssignAll(target, source) ==
  IF source.kids = <<>> THEN target
  ELSE AssignAll(SetField(target, Head(source.kids).key, Head(source.kids).value),
                 [source EXCEPT !.kids = Tail(@)])

RECURSIVE flattenTokensFrom(_, _, _, _)
\* The loop of flattenTokens from its i-th entry, result being the map so far.
flattenTokensFrom(obj, prefix, i, result) ==
  IF i > Len(Entries(obj)) THEN result
  ELSE LET key == Entries(obj)[i].key
           value == Entries(obj)[i].value
           propName == prefix \o "-" \o key
       IN IF StartsWith(key, "$") \/ key \in {"name", "version", "dark"}
          THEN flattenTokensFrom(obj, prefix, i + 1, result)
          ELSE IF IsObject(value)
          THEN flattenTokensFrom(obj, prefix, i + 1,
                 AssignAll(result, flattenTokensFrom(value, propName, 1, Obj(<<>>))))
          ELSE flattenTokensFrom(obj, prefix, i + 1,
                 SetField(result, propName, Str(Text(value))))

\* flattenTokens(obj, prefix)
flattenTokens(obj, prefix) == flattenTokensFrom(obj, prefix, 1, Obj(<<>>))

\* sectionHeader(category), for a category of SECTION_META
sectionHeader(category) ==
  LET meta == SECTION_META(category)
      rule == Repeat("=", 56)
  IN Join(<<"/* " \o rule,
            " * " \o meta.sanskrit \o " (" \o meta.devanagari \o ") - " \o meta.english,
            " * " \o meta.description,
            " * " \o rule \o " */">>, "\n")

\* subSectionHeader(title)
subSectionHeader(title) ==
  "/* -- " \o title \o " " \o slice(Repeat("-", 45), Len(title) + 4) \o " */"

\* poeticComment(token)
poeticComment(token) ==
  "/* " \o Text(Get(token, "sanskrit")) \o " (" \o Text(Get(token, "devanagari"))
  \o ") - " \o Text(Get(token, "intent")) \o " */"

\* cssLine(prop, value)
cssLine(prop, value) == ":root { " \o Text(prop) \o ": " \o Text(value) \o "; }"

\* a || b
OrElse(a, b) == IF Truthy(a) THEN a ELSE b

\* v?.[k]
OptionalGet(v, k) == IF v.kind \in {"undefined", "null"} THEN Undefined ELSE Get(v, k)

\* The lines  --prefix-key: value;  of the entries of obj, indented.
Declarations(indent, prefix, obj) ==
  [i \in 1..Len(Entries(obj)) |->
     indent \o prefix \o Entries(obj)[i].key \o ": "
     \o Text(Entries(obj)[i].value) \o ";"]

\* The comment and declaration lines of the tokens of a table, the value of
\* each chosen by  brand[name] || token.defaultValue.
PoeticLines(table, brand) ==
  ConcatAll([i \in 1..Len(table.kids) |->
    LET name == table.kids[i].key
        token == table.kids[i].value
        brandValue == OptionalGet(brand, name)
        value == OrElse(brandValue, Get(token, "defaultValue"))
    IN <<poeticComment(token), cssLine(Get(token, "cssProperty"), value)>>])

\* The header with the time of the compile on the brand line as well.
generateFileHeaderStamped(rupa, timestamp) ==
  Join(<<"/**",
         " * Bodhi Design Tokens",
         " * Brand: " \o Text(OrElse(Get(rupa, "name"), Str("unnamed")))
           \o " v" \o Text(OrElse(Get(rupa, "version"), Str("0.0.0")))
           \o " (" \o timestamp \o ")",
         " * Generated: " \o timestamp,
         " *",
         " * bodhi - Awakening for the web.",
         " * Do not edit directly. Modify your .rupa.json and recompile.",
         " */">>, "\n")

\* generateFileHeader(rupa), at the time timestamp
generateFileHeader(rupa, timestamp) ==
  Join(<<"/**",
         " * Bodhi Design Tokens",
         " * Brand: " \o Text(OrElse(Get(rupa, "name"), Str("unnamed")))
           \o " v" \o Text(OrElse(Get(rupa, "version"), Str("0.0.0"))),
         " * Generated: " \o timestamp,
         " *",
         " * bodhi - Awakening for the web.",
         " * Do not edit directly. Modify your .rupa.json and recompile.",
         " */">>, "\n")

\* The base colours of generateVarnaSection: the string entries of varna
\* but "dark".
baseColors(varna) ==
  Obj(SelectSeq(Entries(varna),
                LAMBDA e : e.key # "dark" /\ e.value.kind = "str"))

\* generateVarnaSection(rupa)
generateVarnaSection(heap, rupa) ==
  LET varna == OrElse(Get(rupa, "varna"), Obj(<<>>))
      base == baseColors(varna)
      table == communicativeTokens(heap)
  IN Generated(
       <<"", sectionHeader("varna"), "">>
       \o (IF Len(base.kids) > 0
           THEN <<":root {">> \o Declarations("  ", "--bodhi-varna-", base) \o <<"}">>
           ELSE <<>>)
       \o <<"", subSectionHeader("Varna: Communicative Acts")>>
       \o ConcatAll([i \in 1..Len(table.kids) |->
            <<poeticComment(table.kids[i].value),
              cssLine(Get(table.kids[i].value, "cssProperty"),
                      Get(table.kids[i].value, "defaultValue"))>>]),
       Len(base.kids) + Len(table.kids))

\* One block of generateLipiSection: the declarations of lipi[part]
LipiBlock(lipi, part, first) ==
  LET value == Get(lipi, part) IN
    IF Truthy(value) /\ IsObject(value)
    THEN (IF first THEN <<>> ELSE <<"">>) \o <<":root {">>
         \o Declarations("  ", "--bodhi-lipi-" \o part \o "-", value) \o <<"}">>
    ELSE <<>>

\* Object.keys(lipi[part]).length where lipi[part] is truthy, else 0
LipiCount(lipi, part) ==
  IF Truthy(Get(lipi, part)) THEN Len(Entries(Get(lipi, part))) ELSE 0

\* generateLipiSection(rupa)
generateLipiSection(heap, rupa) ==
  LET lipi == OrElse(Get(rupa, "lipi"), Obj(<<>>))
      table == voiceTokens(heap)
  IN Generated(
       <<"", sectionHeader("lipi"), "">>
       \o LipiBlock(lipi, "family", TRUE)
       \o LipiBlock(lipi, "weight", FALSE)
       \o LipiBlock(lipi, "leading", FALSE)
       \o <<"", subSectionHeader("Lipi: Voices")>>
       \o PoeticLines(table, Get(lipi, "scale")),
       Len(table.kids) + LipiCount(lipi, "family") + LipiCount(lipi, "weight")
       + LipiCount(lipi, "leading"))

\* generateAkasaSection(rupa)
generateAkasaSection(heap, rupa) ==
  LET akasa == OrElse(Get(rupa, "akasa"), Obj(<<>>))
      table == spatialTokens(heap)
  IN Generated(
       <<"", sectionHeader("akasa"), "", subSectionHeader("Akasa: Spatial Intent")>>
       \o PoeticLines(table, akasa),
       Len(table.kids))

\* generateGenericSection(category, data)
generateGenericSection(category, data) ==
  LET flat == flattenTokens(data, "--bodhi-" \o category) IN
    Generated(
      <<"", sectionHeader(category), "">>
      \o (IF Len(flat.kids) > 0
          THEN <<":root {">> \o Declarations("  ", "", flat) \o <<"}">>
          ELSE <<>>),
      Len(flat.kids))

\* The remaining categories in the order of their names.
genericCategoriesByName ==
  <<"calana", "chaya", "ghanatva", "pramana", "pratima", "sima", "yukti">>

genericCategories ==
  <<"pramana", "sima", "chaya", "pratima", "calana", "ghanatva", "yukti">>

\* The body of the loop over genericCategories for cat: the section, or
\* nothing where the data has no keys.
GenericResult(rupa, cat) ==
  LET data == OrElse(Get(rupa, cat), Get(DEFAULTS, cat)) IN
    IF Truthy(data) /\ Len(Entries(data)) > 0
    THEN [made |-> TRUE, result |-> generateGenericSection(cat, data)]
    ELSE [made |-> FALSE, result |-> Generated(<<>>, 0)]

\* generateDarkMode(rupa)
generateDarkMode(rupa) ==
  LET dark == OptionalGet(Get(rupa, "varna"), "dark") IN
    IF ~Truthy(dark) \/ ~IsObject(dark) \/ Len(Entries(dark)) = 0
    THEN Generated(<<>>, 0)
    ELSE Generated(
           <<"", subSectionHeader("Varna: Dark Mode"), "",
             "@media (prefers-color-scheme: dark) {", "  :root {">>
           \o Declarations("    ", "--bodhi-varna-", dark)
           \o <<"  }", "}">>,
           Len(Entries(dark)))

\* generateAccessibilityOverrides()
\* The policy lines with the heightened-contrast block first.
generateAccessibilityOverridesContrastFirst ==
  <<"",
    Join(<<"/* " \o Repeat("=", 56),
           " * Bodhi Enforced - Non-negotiable accessibility",
           " * These cannot be overridden by brand tokens.",
           " * " \o Repeat("=", 56) \o " */">>, "\n"),
    "",
    "@media (prefers-contrast: more) {",
    "  :root {",
    "    --bodhi-sima-focus-ring: 3px solid currentColor;",
    "  }",
    "}",
    "",
    "@media (prefers-reduced-motion: reduce) {",
    "  :root {",
    "    --bodhi-calana-duration: 0ms;",
    "    --bodhi-calana-easing: linear;",
    "  }",
    "}">>

generateAccessibilityOverrides ==
  <<"",
    Join(<<"/* " \o Repeat("=", 56),
           " * Bodhi Enforced - Non-negotiable accessibility",
           " * These cannot be overridden by brand tokens.",
           " * " \o Repeat("=", 56) \o " */">>, "\n"),
    "",
    "@media (prefers-reduced-motion: reduce) {",
    "  :root {",
    "    --bodhi-calana-duration: 0ms;",
    "    --bodhi-calana-easing: linear;",
    "  }",
    "}",
    "",
    "@media (prefers-contrast: more) {",
    "  :root {",
    "    --bodhi-sima-focus-ring: 3px solid currentColor;",
    "  }",
    "}">>

CATEGORY_META(cat) ==
  CASE cat = "varna" -> [sanskrit |-> "Varna", purpose |-> "Colors"]
    [] cat = "lipi" -> [sanskrit |-> "Lipi", purpose |-> "Typography"]
    [] cat = "akasa" -> [sanskrit |-> "Akasa", purpose |-> "Spacing"]
    [] cat = "pramana" -> [sanskrit |-> "Pramana", purpose |-> "Sizing"]
    [] cat = "sima" -> [sanskrit |-> "Sima", purpose |-> "Borders"]
    [] cat = "chaya" -> [sanskrit |-> "Chaya", purpose |-> "Shadows"]
    [] cat = "pratima" -> [sanskrit |-> "Pratima", purpose |-> "Icons"]
    [] cat = "calana" -> [sanskrit |-> "Calana", purpose |-> "Motion"]
    [] cat = "ghanatva" -> [sanskrit |-> "Ghanatva", purpose |-> "Density"]
    [] cat = "yukti" -> [sanskrit |-> "Yukti", purpose |-> "Special treatments"]

\* The sentence of a message, as the validator words it.
MessageText(m) ==
  CASE m.type = "not-a-json-object" -> "Rupa file must be a JSON object."
    [] m.type = "missing-required-category" ->
         "Missing required category: \"" \o m.name \o "\" ("
         \o CATEGORY_META(m.name).sanskrit \o " - " \o CATEGORY_META(m.name).purpose
         \o "). Add a \"" \o m.name \o "\" object to your Rupa file."
    [] m.type = "optional-category-defaults" ->
         "Optional category \"" \o m.name \o "\" ("
         \o CATEGORY_META(m.name).sanskrit \o " - " \o CATEGORY_META(m.name).purpose
         \o ") not defined. Defaults will be used."
    [] m.type = "invalid-color" ->
         "Invalid CSS color at " \o m.name \o ": \"" \o m.text \o "\""
    [] m.type = "unknown-top-level-key-ignored" ->
         "Unknown top-level key: \"" \o m.name \o "\" - will be ignored."
    [] m.type = "unrecognized-voice-token" ->
         "lipi.scale key \"" \o m.name \o "\" is not a recognized voice token. "
         \o "Known voices: " \o Join(VOICE_TOKEN_NAMES, ", ")
    [] OTHER ->
         "akasa key \"" \o m.name \o "\" is not a recognized spatial token. "
         \o "Known spatial tokens: " \o Join(SPATIAL_TOKEN_NAMES, ", ")

(* ---------------------------------------------------------------------- *)
(* The contrast pass of the compiler (token.js)                           *)
(* ---------------------------------------------------------------------- *)

\* \w
IsWordChar(c) == c # "" /\ c # "-" /\ IsWordOrDash(c)

RECURSIVE WordRun(_, _)
\* The length of the longest run of \w characters of s from position i.
WordRun(s, i) == IF IsWordChar(At(s, i)) THEN 1 + WordRun(s, i + 1) ELSE 0

VarnaRefPrefix == "var(--bodhi-varna-"

\* The capture of  var\(--bodhi-varna-(\w+)\)  (or, dashed, of
\* var\(--bodhi-varna-(\w+(?:-\w+)?)\) ) matched at position i of s, ""
\* where it does not match there.
VarnaRefAt(s, i, dashed) ==
  LET a == i + Len(VarnaRefPrefix)
      n == WordRun(s, a)
      m == IF dashed /\ At(s, a + n) = "-" THEN WordRun(s, a + n + 1) ELSE 0
  IN IF i + Len(VarnaRefPrefix) - 1 > Len(s)
        \/ SubSeq(s, i, i + Len(VarnaRefPrefix) - 1) # VarnaRefPrefix
        \/ n = 0
     THEN ""
     ELSE IF m > 0 /\ At(s, a + n + 1 + m) = ")" THEN SubSeq(s, a, a + n + m)
     ELSE IF At(s, a + n) = ")" THEN SubSeq(s, a, a + n - 1)
     ELSE ""

RECURSIVE VarnaRefFrom(_, _, _)
\* s.match(regex)?.[1]: the capture of the leftmost match, "" for no match.
VarnaRefFrom(s, i, dashed) ==
  IF i > Len(s) THEN ""
  ELSE IF VarnaRefAt(s, i, dashed) # "" THEN VarnaRefAt(s, i, dashed)
  ELSE VarnaRefFrom(s, i + 1, dashed)

RECURSIVE CommunicativeColors(_, _, _)
\* The loop "Communicative tokens - resolve var() references" of
\* buildColorMap and buildDarkColorMap, from the i-th token.
CommunicativeColors(table, i, colorMap) ==
  IF i > Len(table.kids) THEN colorMap
  ELSE LET name == table.kids[i].key
           value == Get(table.kids[i].value, "defaultValue")
           varnaKey == VarnaRefFrom(value.val, 1, FALSE)
       IN IF value.kind = "str" /\ StartsWith(value.val, VarnaRefPrefix)
             /\ varnaKey # "" /\ Truthy(Get(colorMap, varnaKey))
          THEN CommunicativeColors(table, i + 1,
                 SetField(colorMap, name, Get(colorMap, varnaKey)))
          ELSE CommunicativeColors(table, i + 1, colorMap)

\* The '#' strings among the entries of palette.
HexEntries(palette, skipDark) ==
  Obj(SelectSeq(Entries(palette),
        LAMBDA e : /\ ~(skipDark /\ e.key = "dark")
                   /\ e.value.kind = "str"
                   /\ StartsWith(e.value.val, "#")))

\* buildColorMap(rupa)
buildColorMap(heap, rupa) ==
  LET varna == Get(rupa, "varna") IN
    CommunicativeColors(communicativeTokens(heap), 1,
      IF Truthy(varna) /\ IsObject(varna) THEN HexEntries(varna, TRUE)
      ELSE Obj(<<>>))

\* A dark colour map that starts from the light palette and lays the dark
\* palette over it.
buildDarkColorMapOverLight(heap, rupa) ==
  LET varna == Get(rupa, "varna")
      dark == OptionalGet(varna, "dark")
  IN CommunicativeColors(communicativeTokens(heap), 1,
       AssignAll(IF Truthy(varna) /\ IsObject(varna) THEN HexEntries(varna, TRUE)
                 ELSE Obj(<<>>),
                 IF Truthy(dark) /\ IsObject(dark) THEN HexEntries(dark, FALSE)
                 ELSE Obj(<<>>)))

\* buildDarkColorMap(rupa)
buildDarkColorMap(heap, rupa) ==
  LET dark == OptionalGet(Get(rupa, "varna"), "dark") IN
    CommunicativeColors(communicativeTokens(heap), 1,
      IF Truthy(dark) /\ IsObject(dark) THEN HexEntries(dark, FALSE)
      ELSE Obj(<<>>))

\* resolveVarToHex(varString, colorMap)
resolveVarToHex(varString, colorMap) ==
  IF ~Truthy(varString) \/ varString.kind # "str" THEN Null
  ELSE IF StartsWith(varString.val, "#") THEN varString
  ELSE LET key == VarnaRefFrom(varString.val, 1, TRUE) IN
         IF key = "" THEN Null ELSE OrElse(Get(colorMap, key), Null)

TEXT_ROLES ==
  <<[name |-> "foreground", source |-> "foreground"],
    [name |-> "muted", source |-> "muted"],
    [name |-> "link", source |-> "ahvana"]>>

\* 7.0, in tenths
AAA_RATIO == 70

\* The record pushed for an adjusted colour, none where the adjustment is
\* null or the colour itself.
pushedFor(componentKey, role, source, textHex, bgHex, ratio, adjustedHex) ==
  IF Truthy(adjustedHex) /\ adjustedHex.val # textHex
  THEN <<[component |-> componentKey, role |-> role, source |-> source,
          bgHex |-> bgHex, originalHex |-> textHex,
          adjustedHex |-> adjustedHex.val,
          originalRatio |-> ratio,
          newRatio |-> contrastRatio(adjustedHex.val, bgHex)]>>
  ELSE <<>>

\* The records pushed for a pair of the given ratio.
pushedAt(componentKey, role, source, textHex, bgHex, ratio) ==
  IF RatioBelow(ratio, AAA_RATIO)
  THEN pushedFor(componentKey, role, source, textHex, bgHex, ratio,
                 adjustForContrast(textHex, bgHex, AAA_RATIO))
  ELSE <<>>

\* What one contrast check of generateContrastAdjustments does for the text
\* colour textHex on bgHex: it throws a TypeError where one of the two is
\* not a string (hex.replace is not a function), else pushes one record
\* or none.
CheckContrast(componentKey, role, source, textHex, bgHex) ==
  IF textHex.kind # "str" \/ bgHex.kind # "str"
  THEN [threw |-> TRUE, pushed |-> <<>>]
  ELSE [threw |-> FALSE,
        pushed |-> pushedAt(componentKey, role, source, textHex.val, bgHex.val,
                            contrastRatio(textHex.val, bgHex.val))]

\* The check of the explicit colour of a component, where it has one that
\* resolves.
explicitCheck(componentKey, componentData, colorHex, bgHex) ==
  IF Truthy(Get(componentData, "color")) /\ Truthy(colorHex)
  THEN <<CheckContrast(componentKey, "", "color", colorHex, bgHex)>>
  ELSE <<>>

\* A check of a text role that takes no notice of the component's overrides.
roleCheckOfAll(componentKey, componentData, role, textHex, bgHex) ==
  IF ~Truthy(textHex) THEN <<>>
  ELSE <<CheckContrast(componentKey, role.name, role.source, textHex, bgHex)>>

\* The check of one text role, where the component does not override it
\* and the colour map has its colour.
roleCheck(componentKey, componentData, role, textHex, bgHex) ==
  IF Truthy(Get(componentData, "color-" \o role.name)) \/ ~Truthy(textHex)
  THEN <<>>
  ELSE <<CheckContrast(componentKey, role.name, role.source, textHex, bgHex)>>

\* The checks of a component on the resolved background bgHex.
checksOn(componentKey, componentData, colorMap, bgHex) ==
  IF ~Truthy(bgHex) THEN <<>>
  ELSE explicitCheck(componentKey, componentData,
                     resolveVarToHex(Get(componentData, "color"), colorMap), bgHex)
       \o ConcatAll([i \in 1..Len(TEXT_ROLES) |->
            roleCheck(componentKey, componentData, TEXT_ROLES[i],
                      Get(colorMap, TEXT_ROLES[i].source), bgHex)])

\* The checks of one component in order: the explicit colour first, then
\* the text roles.
ComponentChecks(componentKey, componentData, colorMap) ==
  IF ~Truthy(componentData) \/ ~IsObject(componentData)
     \/ ~Truthy(Get(componentData, "bg"))
  THEN <<>>
  ELSE checksOn(componentKey, componentData, colorMap,
                resolveVarToHex(Get(componentData, "bg"), colorMap))

RECURSIVE CollectChecks(_, _)
\* The adjustments pushed by a sequence of checks, up to the first that
\* throws.
CollectChecks(checks, adjustments) ==
  IF checks = <<>> THEN [threw |-> FALSE, adjustments |-> adjustments]
  ELSE IF Head(checks).threw THEN [threw |-> TRUE, adjustments |-> adjustments]
  ELSE CollectChecks(Tail(checks), adjustments \o Head(checks).pushed)

\* generateContrastAdjustments(rupa, colorMap)
generateContrastAdjustments(rupa, colorMap) ==
  LET nirmana == OrElse(Get(rupa, "nirmana"), Obj(<<>>)) IN
    CollectChecks(
      ConcatAll([i \in 1..Len(Entries(nirmana)) |->
        ComponentChecks(Entries(nirmana)[i].key, Entries(nirmana)[i].value,
                        colorMap)]),
      <<>>)

\* The components of a list of adjustments in the order of their first
\* record: Object.keys(byComponent).
RECURSIVE ComponentsOf(_, _)
ComponentsOf(adjustments, seen) ==
  IF adjustments = <<>> THEN seen
  ELSE ComponentsOf(Tail(adjustments),
         IF Head(adjustments).component \in Range(seen) THEN seen
         ELSE Append(seen, Head(adjustments).component))

\* byComponent[adj.component].push(adj) is a TypeError where the component
\* bears the name of a member of Object.prototype.
GroupingThrows(adjustments) ==
  \E i \in 1..Len(adjustments) : adjustments[i].component \in ProtoNames

\* The lines of one group of adjustments: the comment naming the component,
\* the :root block and the empty line after it.
AdjustmentBlock(componentKey, adjustments, indent) ==
  LET compAdjustments ==
        SelectSeq(adjustments, LAMBDA adj : adj.component = componentKey)
      label == Get(NIRMANA_LABELS, componentKey)
      componentName ==
        IF Truthy(label)
        THEN Text(Get(label, "sanskrit")) \o " (" \o componentKey \o ")"
        ELSE componentKey
  IN <<indent \o "/* " \o componentName \o " on " \o compAdjustments[1].bgHex \o " */",
       indent \o ":root {">>
     \o ConcatAll([i \in 1..Len(compAdjustments) |->
          LET adj == compAdjustments[i] IN
            <<indent \o "  /* adjusted from " \o adj.originalHex \o " (was "
                \o toFixed1(adj.originalRatio) \o ":1 > now "
                \o toFixed1(adj.newRatio) \o ":1) */",
              indent \o "  "
                \o (IF adj.role # ""
                    THEN "--bodhi-nirmana-" \o adj.component \o "-color-" \o adj.role
                    ELSE "--bodhi-nirmana-" \o adj.component \o "-color")
                \o ": " \o adj.adjustedHex \o ";">>])
     \o <<indent \o "}", "">>

\* The blocks of all groups.
AdjustmentBlocks(adjustments, indent) ==
  LET components == ComponentsOf(adjustments, <<>>) IN
    ConcatAll([i \in 1..Len(components) |->
      AdjustmentBlock(components[i], adjustments, indent)])

\* generateContrastAdjustmentCSS(adjustments)
generateContrastAdjustmentCSS(adjustments) ==
  IF Len(adjustments) = 0 THEN Generated(<<>>, 0)
  ELSE IF GroupingThrows(adjustments) THEN ThrewTypeError
  ELSE Generated(
         <<"",
           "/* -- Nirmana: Contrast-Adjusted Colors ------- */",
           "/* Auto-calculated for AAA compliance (7:1 minimum) */",
           "">>
         \o AdjustmentBlocks(adjustments, ""),
         Len(adjustments))

\* The lines of the block "Dark mode contrast adjustments" of tokenCompile
\* for a list that is not empty.
darkContrastLines(adjustments) ==
  IF GroupingThrows(adjustments) THEN ThrewTypeError
  ELSE Generated(
         <<"",
           "/* -- Nirmana: Dark Mode Contrast Adjustments -- */",
           "",
           "@media (prefers-color-scheme: dark) {">>
         \o AdjustmentBlocks(adjustments, "  ")
         \o <<"}">>,
         Len(adjustments))

\* The header comment of one component in generateNirmanaSection; the
\* template reads label.sanskrit.length, a TypeError where the label found
\* is a member of Object.prototype.
ComponentHeader(componentKey) ==
  LET label == Get(NIRMANA_LABELS, componentKey)
      sanskrit == Get(label, "sanskrit")
      devanagari == Get(label, "devanagari")
      english == Get(label, "english")
  IN IF Truthy(label)
     THEN IF sanskrit.kind # "str" \/ english.kind # "str"
          THEN [threw |-> TRUE, line |-> ""]
          ELSE [threw |-> FALSE,
                line |-> "  /* -- " \o sanskrit.val
                  \o (IF Truthy(devanagari) THEN " (" \o devanagari.val \o ")" ELSE "")
                  \o " - " \o english.val \o " "
                  \o Repeat("-", 45 - Len(sanskrit.val)
                       - (IF Truthy(devanagari) THEN Len(devanagari.val) + 3 ELSE 0)
                       - Len(english.val) - 7)
                  \o " */"]
     ELSE [threw |-> FALSE,
           line |-> "  /* -- " \o componentKey \o " "
             \o Repeat("-", 45 - Len(componentKey) - 4) \o " */"]

\* The entries of a component that generateNirmanaSection declares: all but
\* the colour an adjustment replaces.
DeclaredProps(componentKey, componentData, adjustments) ==
  IF IsObject(componentData)
  THEN SelectSeq(Entries(componentData),
         LAMBDA e : ~(\E i \in 1..Len(adjustments) :
                        /\ adjustments[i].role = ""
                        /\ adjustments[i].component \o "-color"
                           = componentKey \o "-" \o e.key))
  ELSE <<>>

\* generateNirmanaSection(rupa, adjustments)
generateNirmanaSection(rupa, adjustments) ==
  LET nirmana == OrElse(Get(rupa, "nirmana"), Obj(<<>>))
      components == Entries(nirmana)
      props(i) == DeclaredProps(components[i].key, components[i].value, adjustments)
  IN IF \E i \in 1..Len(components) : ComponentHeader(components[i].key).threw
     THEN ThrewTypeError
     ELSE Generated(
            <<"", sectionHeader("nirmana"), "", ":root {">>
            \o ConcatAll([i \in 1..Len(components) |->
                 <<ComponentHeader(components[i].key).line>>
                 \o Declarations("  ", "--bodhi-nirmana-" \o components[i].key \o "-",
                                 Obj(props(i)))
                 \o (IF i < Len(components) THEN <<"">> ELSE <<>>)])
            \o <<"}">>,
            LET RECURSIVE Sum(_)
                Sum(i) == IF i = 0 THEN 0 ELSE Len(props(i)) + Sum(i - 1)
            IN Sum(Len(components)))

(* ---------------------------------------------------------------------- *)
(* State                                                                  *)
(* ---------------------------------------------------------------------- *)

VARIABLES
  colorArg,      \* the string handed to isValidCSSColor
  colorResult,   \* "none" before the call, then "valid" or "invalid"
  valArg,        \* the parsed value handed to validateRupa
  valResult,     \* its result, with called = FALSE before the call
  tokens,        \* the token definition objects of poetic-tokens.js, by name
  snapshot,      \* the object getAllTokens returned to the caller
  resolved,      \* the last resolveToken call and its outcome
  invocation,    \* the arguments of tokenCompile: file, output, verbose
  inputFile,     \* the brand file: whether it exists, parses, and its value
  pc,            \* where tokenCompile stands
  rupa,          \* the parsed brand file
  validation,    \* the result of validateRupa in tokenCompile
  allLines,      \* the lines of the stylesheet generated so far
  categoryCounts,          \* the token count of each section, in order
  contrastAdjustments,     \* the adjustments of the light pass
  darkContrastAdjustments, \* the adjustments of the dark pass
  written,       \* the writeFileSync calls made: path and text
  console,       \* the lines printed, each with its stream
  adjustArg,     \* the colours and the target handed to adjustForContrast
  adjustResult,  \* its result, with called = FALSE before the call
  earlier,       \* the tokenCompile calls that returned: file and lines
  searchPc,      \* where a call of adjustForContrast stands
  minL,          \* the lower end of its lightness interval, in steps
  maxL,          \* the upper end
  bestL,         \* the lightness it would return, as [k, n]
  iterations,    \* the passes of its loop that ran to their end
  candidates,    \* the lightness and ratio of each candidate it evaluated
  options,       \* the options of a lint rule: mode
  jsxNode,       \* the opening element handed to no-consent-erosion
  program,       \* the tags no-obstructed-exit traverses, in order
  position,      \* the tags it has visited
  dialogStack,   \* its stack of dialogs
  reports        \* the context.report calls of the rule

colorVars == <<colorArg, colorResult>>

valVars == <<valArg, valResult>>

registryVars == <<tokens, snapshot, resolved>>

compileVars ==
  <<invocation, inputFile, pc, rupa, validation, allLines, categoryCounts,
    contrastAdjustments, darkContrastAdjustments, written, console>>

contrastVars == <<adjustArg, adjustResult>>

historyVars == <<earlier>>

searchVars == <<searchPc, minL, maxL, bestL, iterations, candidates>>

lintVars == <<options, jsxNode, program, position, dialogStack, reports>>

vars == <<colorVars, valVars, registryVars, compileVars, contrastVars, historyVars, searchVars, lintVars>>

NotValidated ==
  [called |-> FALSE, valid |-> FALSE, errors |-> <<>>, warnings |-> <<>>]

NoSnapshot == [held |-> FALSE, entries |-> [n \in DOMAIN InitialTokens |-> "none"]]

NotResolved ==
  [called |-> FALSE, name |-> "", overrides |-> Undefined,
   outcome |-> "none", value |-> Undefined]

IdleColor == colorArg = "" /\ colorResult = "none"

IdleValidate == valArg = Null /\ valResult = NotValidated

IdleRegistry ==
  tokens = InitialTokens /\ snapshot = NoSnapshot /\ resolved = NotResolved

NoInvocation == [file |-> Undefined, output |-> Undefined, verbose |-> Undefined]

NoFile == [exists |-> FALSE, parses |-> FALSE, value |-> Undefined]

NotAdjusted == [called |-> FALSE, value |-> Null]

NoAdjustment == [foreground |-> "", background |-> "", target |-> 0]

IdleContrast == adjustArg = NoAdjustment /\ adjustResult = NotAdjusted

IdleSearch ==
  /\ searchPc = "idle"
  /\ minL = 0
  /\ maxL = 0
  /\ bestL = [k |-> 0, n |-> 1]
  /\ iterations = 0
  /\ candidates = <<>>

NoNode == [tagName |-> "", attributes |-> <<>>]

IdleLint ==
  /\ options = [mode |-> ""]
  /\ jsxNode = NoNode
  /\ program = <<>>
  /\ position = 0
  /\ dialogStack = <<>>
  /\ reports = <<>>

\* tokenCompile has not been called.
IdleCompile ==
  /\ invocation = NoInvocation
  /\ inputFile = NoFile
  /\ pc = "idle"
  /\ rupa = Undefined
  /\ validation = NotValidated
  /\ allLines = <<>>
  /\ categoryCounts = <<>>
  /\ contrastAdjustments = <<>>
  /\ darkContrastAdjustments = <<>>
  /\ written = <<>>
  /\ console = <<>>
  /\ earlier = {}

Validated(r) ==
  [called |-> TRUE, valid |-> r.valid, errors |-> r.errors, warnings |-> r.warnings]

(* ---------------------------------------------------------------------- *)
(* Inputs                                                                 *)
(* ---------------------------------------------------------------------- *)

\* Bounds of the inputs.
MaxHexLen == 8

MaxDepth == 2

HexAlphabet == {"0", "F", "g"}

RECURSIVE Words(_)
\* The words over HexAlphabet of length at most n.
Words(n) ==
  IF n = 0 THEN {""}
  ELSE LET shorter == Words(n - 1) IN
         shorter \cup {w \o c : w \in shorter, c \in HexAlphabet}

ColorStrings ==
  {"#" \o w : w \in Words(MaxHexLen)}
  \cup {"red", "RebeccaPurple", " #fff ", "rgb(0, 0, 0)", "rgba(1,2,3,.5)",
        "hsl(1 2% 3%)", "oklch()", "rgb(", "var(--bodhi-varna-primary)",
        "var(--)", "currentColor", "transparent", "revert", "nope", ""}

\* The objects with entries under a subsequence of keys, values from vals.
RECURSIVE ObjectsOver(_, _)
ObjectsOver(keys, vals) ==
  IF keys = <<>> THEN {<<>>}
  ELSE LET rest == ObjectsOver(Tail(keys), vals) IN
         rest \cup {<<KV(Head(keys), v)>> \o r : v \in vals, r \in rest}

ColorLeaves == {Str("#fff"), Str("nope")}

ColorTreeKeys == <<"dark", "primary">>

RECURSIVE ColorTrees(_)
\* The values nested at most d objects deep.
ColorTrees(d) ==
  IF d = 0 THEN ColorLeaves
  ELSE ColorLeaves
       \cup {Obj(e) : e \in ObjectsOver(ColorTreeKeys, ColorTrees(d - 1))}

\* What a brand file holds beside varna.
OtherEntries ==
  LET lipi == KV("lipi", Obj(<<>>))
      akasa == KV("akasa", Obj(<<>>))
      lipiX == KV("lipi", Obj(<<KV("scale",
                 Obj(<<KV("japa", Str("1rem")), KV("shout", Str("9rem"))>>))>>))
      akasaX == KV("akasa", Obj(<<KV("sparsa", Str("3rem")), KV("gap", Str("1rem"))>>))
      optional == [i \in 1..Len(OPTIONAL_CATEGORIES) |->
                     KV(OPTIONAL_CATEGORIES[i], Obj(<<KV("a", Str("1px"))>>))]
  IN {<<lipi, akasa>>, <<akasa>>, <<lipi>>, <<>>,
      <<lipi, akasa, KV("theme", Str("x"))>>,
      <<lipiX, akasaX>>,
      <<lipiX, akasaX, KV("theme", Str("x")), KV("nirmana", Obj(<<>>))>>,
      <<KV("name", Str("b")), lipi, akasa>> \o optional}

\* The deep colour trees meet the plain files; the shallow ones meet every
\* other shape of file.
CoreEntries ==
  {<<KV("lipi", Obj(<<>>)), KV("akasa", Obj(<<>>))>>, <<KV("akasa", Obj(<<>>))>>}

ValidationInputs ==
  {Null, Arr(<<>>), Str("x")}
  \cup {Obj(o) : o \in OtherEntries}
  \cup {Obj(<<KV("varna", v)>> \o o) : v \in ColorTrees(1), o \in OtherEntries}
  \cup {Obj(<<KV("varna", v)>> \o o) : v \in ColorTrees(MaxDepth), o \in CoreEntries}

(* ---------------------------------------------------------------------- *)
(* Specifications of the pure functions                                   *)
(* ---------------------------------------------------------------------- *)

CallIsValidCSSColor ==
  /\ colorResult = "none"
  /\ colorResult' = IF isValidCSSColor(Str(colorArg)) THEN "valid" ELSE "invalid"
  /\ UNCHANGED <<colorArg, valVars, contrastVars, historyVars, searchVars, lintVars, registryVars, compileVars>>

InitColor ==
  /\ colorArg \in ColorStrings
  /\ colorResult = "none"
  /\ IdleValidate
  /\ IdleRegistry
  /\ IdleCompile
  /\ IdleContrast
  /\ IdleSearch
  /\ IdleLint

NextColor == CallIsValidCSSColor

SpecColor == InitColor /\ [][NextColor]_vars

CallValidateRupa ==
  /\ ~valResult.called
  /\ valResult' = Validated(validateRupa(valArg))
  /\ UNCHANGED <<valArg, colorVars, contrastVars, historyVars, searchVars, lintVars, registryVars, compileVars>>

InitValidate ==
  /\ IdleColor
  /\ valArg \in ValidationInputs
  /\ valResult = NotValidated
  /\ IdleRegistry
  /\ IdleCompile
  /\ IdleContrast
  /\ IdleSearch
  /\ IdleLint

NextValidate == CallValidateRupa

SpecValidate == InitValidate /\ [][NextValidate]_vars

(* ---------------------------------------------------------------------- *)
(* The token registry and its callers                                     *)
(* ---------------------------------------------------------------------- *)

\* The names the callers ask for: every token, a name of no token, and the
\* names of members of Object.prototype.
ResolveNames == DOMAIN InitialTokens \cup {"nada"} \cup ProtoNames

\* The overrides a caller passes for name n: none, an empty object, and
\* objects that give n a value.
OverridesFor(n) ==
  {Undefined, Obj(<<>>), Obj(<<KV(n, Str("3rem"))>>), Obj(<<KV(n, Num("0"))>>),
   Obj(<<KV("other", Str("3rem"))>>)}

\* The tokens the caller of getAllTokens writes to, and what it writes.
WrittenNames == {"vicara", "ahvana"}

WrittenValues == {Str("9rem")}

CallGetAllTokens ==
  /\ snapshot' = getAllTokens(tokens)
  /\ UNCHANGED <<tokens, resolved, colorVars, contrastVars, historyVars, searchVars, lintVars, valVars, compileVars>>

\* snapshot[n] = v: the caller replaces a top-level entry of its copy.
CallerSetsEntry ==
  \E n \in WrittenNames :
    /\ snapshot.held
    /\ snapshot' = [snapshot EXCEPT !.entries[n] = "other"]
    /\ UNCHANGED <<tokens, resolved, colorVars, contrastVars, historyVars, searchVars, lintVars, valVars, compileVars>>

\* snapshot[n].defaultValue = v: the caller writes a field of a token
\* definition reached through its copy, which is the registry's own object.
CallerSetsTokenField ==
  \E n \in WrittenNames, v \in WrittenValues :
    /\ snapshot.held
    /\ snapshot.entries[n] = "token"
    /\ tokens' = [tokens EXCEPT ![n] = SetField(@, "defaultValue", v)]
    /\ UNCHANGED <<snapshot, resolved, colorVars, contrastVars, historyVars, searchVars, lintVars, valVars, compileVars>>

CallResolveToken ==
  \E n \in ResolveNames :
    \E o \in OverridesFor(n) :
      /\ resolved' = [called |-> TRUE, name |-> n, overrides |-> o,
                      outcome |-> resolveToken(tokens, n, o).outcome,
                      value |-> resolveToken(tokens, n, o).value]
      /\ UNCHANGED <<tokens, snapshot, colorVars, contrastVars, historyVars, searchVars, lintVars, valVars, compileVars>>

InitRegistry ==
  IdleColor /\ IdleValidate /\ IdleRegistry /\ IdleCompile /\ IdleContrast /\ IdleSearch /\ IdleLint

NextRegistry ==
  \/ CallGetAllTokens
  \/ CallerSetsEntry
  \/ CallerSetsTokenField
  \/ CallResolveToken

SpecRegistry == InitRegistry /\ [][NextRegistry]_vars

(* ---------------------------------------------------------------------- *)
(* The contrast utilities and their callers                               *)
(* ---------------------------------------------------------------------- *)

\* The colours the callers pass: shorthand and full hex colours, greys and
\* saturated colours, dark and light.
ContrastColors ==
  {"#000", "#fff", "#777777", "#808080", "#4b5563", "#1a1a1a", "#2563eb",
   "#94a3b8", "#0f172a", "#dc2626", "#fde047", "#f8fafc", "#7670eb", "#a2a6a7"}

\* The targets, in tenths: AAA, AA and the ratio for large text.
ContrastTargets == {AAA_RATIO, 45, 30}

CallAdjustForContrast ==
  /\ adjustArg # NoAdjustment
  /\ ~adjustResult.called
  /\ adjustResult' =
       [called |-> TRUE,
        value |-> adjustForContrast(adjustArg.foreground, adjustArg.background,
                                    adjustArg.target)]
  /\ UNCHANGED <<adjustArg, colorVars, valVars, registryVars, compileVars, historyVars, searchVars, lintVars>>

InitContrast ==
  /\ IdleColor
  /\ IdleValidate
  /\ IdleRegistry
  /\ IdleCompile
  /\ IdleSearch
  /\ IdleLint
  /\ adjustArg \in [foreground : ContrastColors, background : ContrastColors,
                    target : ContrastTargets]
  /\ adjustResult = NotAdjusted

NextContrast == CallAdjustForContrast

SpecContrast == InitContrast /\ [][NextContrast]_vars

(* ---------------------------------------------------------------------- *)
(* adjustForContrast, step by step (rupa-validator.js)                    *)
(* ---------------------------------------------------------------------- *)

\* A direction that never lightens.
neverLighten(background) == FALSE

\* const shouldLighten = bgLuminance < 0.5
shouldLighten(background) == relativeLuminance(background) < 5000000

\* The loop condition: iterations < maxIterations && maxL - minL > 0.1
LoopCondition == iterations < maxIterations /\ WiderThanTenth(minL, maxL)

\* The early return for a colour that meets the target, or the locals of the
\* search.
EnterAdjustForContrast ==
  /\ searchPc = "start"
  /\ \E passes \in {meetsContrast(adjustArg.foreground, adjustArg.background,
                                      adjustArg.target)} :
       IF passes
       THEN /\ adjustResult' = [called |-> TRUE, value |-> Str(adjustArg.foreground)]
            /\ searchPc' = "returned"
            /\ UNCHANGED <<minL, maxL, bestL, iterations>>
       ELSE /\ minL' = 0
            /\ maxL' = LightnessSteps
            /\ \E hsl \in {hexToHSL(adjustArg.foreground)} :
                 bestL' = [k |-> hsl.k, n |-> hsl.n]
            /\ iterations' = 0
            /\ searchPc' = "loop"
            /\ UNCHANGED adjustResult
  /\ UNCHANGED <<adjustArg, candidates, colorVars, valVars, registryVars, compileVars,
                 historyVars, lintVars>>

\* One pass of the while loop, for the candidate testL with its ratio.
IterateWith(testL, ratio) ==
  /\ \E lighten \in {shouldLighten(adjustArg.background)} :
       IF RatioNear(ratio, adjustArg.target)
       THEN /\ bestL' = [k |-> testL, n |-> LightnessSteps]
            /\ searchPc' = "final"
            /\ UNCHANGED <<minL, maxL, iterations>>
       ELSE /\ IF RatioBelow(ratio, adjustArg.target)
               THEN /\ IF lighten
                       THEN minL' = testL /\ maxL' = maxL
                       ELSE maxL' = testL /\ minL' = minL
                    /\ bestL' = bestL
               ELSE /\ IF lighten
                       THEN maxL' = testL /\ minL' = minL
                       ELSE minL' = testL /\ maxL' = maxL
                    /\ bestL' = [k |-> testL, n |-> LightnessSteps]
            /\ iterations' = iterations + 1
            /\ searchPc' = "loop"
  /\ candidates' = Append(candidates,
                          [testL |-> testL, ratio |-> ratio, minL |-> minL, maxL |-> maxL,
                           best |-> bestL'])

Iterate ==
  /\ searchPc = "loop"
  /\ LoopCondition
  /\ \E hsl \in {hexToHSL(adjustArg.foreground)} :
       \E testL \in {(minL + maxL) \div 2} :
         \E testColor \in {hslToHex(hsl, testL, LightnessSteps)} :
           \E ratio \in {contrastRatio(testColor, adjustArg.background)} :
             IterateWith(testL, ratio)
  /\ UNCHANGED <<contrastVars, colorVars, valVars, registryVars, compileVars,
                 historyVars, lintVars>>

\* The loop condition fails.
LeaveLoop ==
  /\ searchPc = "loop"
  /\ ~LoopCondition
  /\ searchPc' = "final"
  /\ UNCHANGED <<minL, maxL, bestL, iterations, candidates, contrastVars, colorVars,
                 valVars, registryVars, compileVars, historyVars, lintVars>>

\* The final check and the return.
FinalCheck ==
  /\ searchPc = "final"
  /\ \E hsl \in {hexToHSL(adjustArg.foreground)} :
       \E adjustedColor \in {colorAt(hsl, bestL)} :
         adjustResult' =
           [called |-> TRUE,
            value |-> verified(adjustedColor, adjustArg.background, adjustArg.target)]
  /\ searchPc' = "returned"
  /\ UNCHANGED <<adjustArg, minL, maxL, bestL, iterations, candidates, colorVars,
                 valVars, registryVars, compileVars, historyVars, lintVars>>

InitSearch ==
  /\ IdleColor
  /\ IdleValidate
  /\ IdleRegistry
  /\ IdleCompile
  /\ IdleLint
  /\ adjustArg \in [foreground : ContrastColors, background : ContrastColors,
                    target : ContrastTargets]
  /\ adjustResult = NotAdjusted
  /\ searchPc = "start"
  /\ minL = 0
  /\ maxL = 0
  /\ bestL = [k |-> 0, n |-> 1]
  /\ iterations = 0
  /\ candidates = <<>>

NextSearch == EnterAdjustForContrast \/ Iterate \/ LeaveLoop \/ FinalCheck

SpecSearch == InitSearch /\ [][NextSearch]_vars

\* The position of the call and its count of iterations.
progressVars == <<searchPc, iterations>>

\* What every step of the call does to its position: it moves on to another
\* statement, or it goes round the loop once more. Every step of NextSearch
\* is such a step (StepsRun), and one is possible exactly when the call has
\* not returned, since each statement's guard is its position and the loop
\* condition only.
Runs ==
  /\ searchPc # "returned"
  /\ \/ searchPc' \in ({"loop", "final", "returned"} \ {searchPc}) /\ iterations' = iterations
     \/ searchPc' = searchPc /\ iterations' = iterations + 1

StepsRun == [][NextSearch => Runs]_vars

\* JavaScript runs a synchronous call to completion: a call that has started
\* and not returned takes its next step.
SpecSearchFair == SpecSearch /\ WF_progressVars(Runs)

(* ---------------------------------------------------------------------- *)
(* The brand files that tokenCompile is given                             *)
(* ---------------------------------------------------------------------- *)

LightPalette ==
  <<KV("primary", Str("#2563eb")), KV("foreground", Str("#0f172a")),
    KV("muted", Str("#4b5563")), KV("surface", Str("#ffffff"))>>

DarkPalette ==
  <<KV("primary", Str("#60a5fa")), KV("foreground", Str("#f8fafc")),
    KV("muted", Str("#94a3b8")), KV("surface", Str("#0f172a"))>>

\* A dark palette that overrides some of the colours only.
PartialDarkPalette ==
  <<KV("foreground", Str("#f8fafc")), KV("surface", Str("#0f172a"))>>

VarnaChoices ==
  {<<>>,
   <<KV("varna", Obj(LightPalette))>>,
   <<KV("varna", Obj(LightPalette \o <<KV("ahvana", Str("#dc2626"))>>))>>,
   <<KV("varna", Obj(LightPalette \o <<KV("dark", Obj(DarkPalette))>>))>>,
   <<KV("varna", Obj(LightPalette \o <<KV("dark", Obj(PartialDarkPalette))>>))>>,
   <<KV("varna", Obj(<<KV("primary", Str("nope"))>>))>>}

LipiChoices ==
  {<<KV("lipi", Obj(<<>>))>>,
   <<KV("lipi", Obj(<<KV("family", Obj(<<KV("body", Str("Inter"))>>)),
                      KV("scale", Obj(<<KV("japa", Str("0.8rem")),
                                        KV("shout", Str("9rem"))>>))>>))>>,
   <<KV("lipi", Obj(<<KV("scale", Obj(<<KV("katha", Num("0"))>>))>>))>>}

AkasaChoices ==
  {<<KV("akasa", Obj(<<>>))>>,
   <<KV("akasa", Obj(<<KV("sparsa", Str("3rem"))>>))>>,
   <<KV("akasa", Obj(<<KV("sparsa", Num("0"))>>))>>,
   <<KV("akasa", Obj(<<KV("vicara", Str("")), KV("gap", Str("1rem"))>>))>>}

OptionalChoices ==
  {<<>>,
   <<KV("name", Str("acme")), KV("version", Str("1.2.0")),
     KV("pramana", Obj(<<KV("content-width", Str("70ch"))>>)),
     KV("sima", Obj(<<KV("width", Obj(<<KV("thin", Str("1px"))>>))>>)),
     KV("chaya", Obj(<<KV("sm", Str("none"))>>)),
     KV("pratima", Obj(<<KV("size", Num("24"))>>)),
     KV("calana", Obj(<<KV("duration-slow", Str("400ms"))>>)),
     KV("ghanatva", Obj(<<KV("mode", Str("compact"))>>)),
     KV("yukti", Obj(<<KV("glow", Bool("true"))>>))>>}

NirmanaChoices ==
  {<<>>,
   <<KV("nirmana", Obj(<<KV("card", Obj(<<KV("bg", Str("#1a1a1a"))>>))>>))>>,
   <<KV("nirmana", Obj(<<KV("siras",
        Obj(<<KV("bg", Str("var(--bodhi-varna-surface)")),
              KV("color", Str("#777777")),
              KV("color-link", Str("#0000ff"))>>))>>))>>,
   <<KV("nirmana", Obj(<<KV("badge",
        Obj(<<KV("bg", Str("#1a1a1a")),
              KV("color-foreground", Str("#f5f5f5")),
              KV("color-link", Str("#2563eb"))>>))>>))>>,
   <<KV("nirmana", Obj(<<KV("toString", Obj(<<KV("bg", Str("#ffffff"))>>))>>))>>,
   <<KV("nirmana", Obj(<<KV("panel",
        Obj(<<KV("bg", Str("var(--bodhi-varna-constructor)"))>>))>>))>>,
   <<KV("nirmana", Obj(<<KV("aside",
        Obj(<<KV("bg", Str("var(--bodhi-varna-danger)")),
              KV("color", Str("#777777"))>>))>>))>>}

\* The plain choice of each part of a brand file.
PlainVarna == <<KV("varna", Obj(LightPalette))>>

PlainLipi == <<KV("lipi", Obj(<<>>))>>

PlainAkasa == <<KV("akasa", Obj(<<>>))>>

\* The brand files: those that differ from the plain file in one part, the
\* light and the dark palette with every choice of components and optional
\* categories, and files without lipi.
BrandFiles ==
  {Obj(v \o PlainLipi \o PlainAkasa) : v \in VarnaChoices}
  \cup {Obj(PlainVarna \o l \o PlainAkasa) : l \in LipiChoices}
  \cup {Obj(PlainVarna \o PlainLipi \o a) : a \in AkasaChoices}
  \cup {Obj(v \o PlainLipi \o PlainAkasa \o o \o n) :
          v \in VarnaChoices \ {<<>>}, o \in OptionalChoices, n \in NirmanaChoices}
  \cup {Obj(v \o a) : v \in VarnaChoices, a \in AkasaChoices}

Reverse(seq) == [i \in 1..Len(seq) |-> seq[Len(seq) + 1 - i]]

\* Brand files with every category, their keys in the order of the
\* sections and in the opposite order.
FullFiles ==
  LET full == CHOOSE v \in VarnaChoices :
                v = <<KV("varna", Obj(LightPalette \o <<KV("dark", Obj(DarkPalette))>>))>>
      optional == CHOOSE o \in OptionalChoices : o # <<>>
      entries == full \o PlainLipi \o PlainAkasa \o optional
                 \o <<KV("nirmana", Obj(<<KV("card", Obj(<<KV("bg", Str("#1a1a1a"))>>))>>))>>
  IN {Obj(entries), Obj(Reverse(entries))}

\* A palette of '#' colours of three, four, six and eight digits.
DigitsPalette ==
  <<KV("primary", Str("#25e")), KV("foreground", Str("#012f")),
    KV("muted", Str("#4b5563cc")), KV("surface", Str("#ffffff"))>>

\* A brand file with that palette and one component.
DigitsFiles ==
  {Obj(<<KV("varna", Obj(DigitsPalette))>> \o PlainLipi \o PlainAkasa
       \o <<KV("nirmana", Obj(<<KV("card", Obj(<<KV("bg", Str("#1a1a1a"))>>))>>))>>)}

InputFiles ==
  {NoFile, [exists |-> TRUE, parses |-> FALSE, value |-> Undefined]}
  \cup {[exists |-> TRUE, parses |-> TRUE, value |-> v] :
          v \in BrandFiles \cup FullFiles \cup DigitsFiles \cup {Null, Arr(<<>>), Num("5")}}

Invocations ==
  {NoInvocation,
   [file |-> Str("acme.rupa.json"), output |-> Str("acme.css"),
    verbose |-> Bool("true")]}

(* ---------------------------------------------------------------------- *)
(* tokenCompile(file, options), step by step (token.js)                   *)
(* ---------------------------------------------------------------------- *)

Log(text) == [stream |-> "log", text |-> text]

Error(text) == [stream |-> "error", text |-> text]

inputPath == Text(OrElse(invocation.file, Str("bodhi.rupa.json")))

outputPath == Text(OrElse(invocation.output, Str("bodhi-tokens.css")))

css == Join(allLines, "\n")

\* The opening lines and the existsSync check.
CheckInput ==
  /\ pc = "start"
  /\ IF inputFile.exists
     THEN /\ console' = console \o <<Log(""), Log("  bodhi token compile"), Log("")>>
          /\ pc' = "read"
     ELSE /\ console' = console
               \o <<Log(""), Log("  bodhi token compile"), Log(""),
                    Error("  x Brand file not found: " \o inputPath),
                    Error("    Run: bodhi init - to create a default brand file.")>>
          /\ pc' = "exit1"
  /\ UNCHANGED <<invocation, inputFile, rupa, validation, allLines, categoryCounts,
                 contrastAdjustments, darkContrastAdjustments, written,
                 colorVars, contrastVars, historyVars, searchVars, lintVars, valVars, registryVars>>

\* readFileSync and JSON.parse. The file's text is held as the value it
\* parses to, or as the mark of a text that JSON.parse rejects.
ReadAndParse ==
  /\ pc = "read"
  /\ IF inputFile.parses
     THEN /\ rupa' = inputFile.value
          /\ console' = console
          /\ pc' = "brand"
     ELSE /\ rupa' = rupa
          /\ console' = Append(console,
               Error("  x Failed to parse " \o inputPath \o ": Unexpected token"))
          /\ pc' = "exit1"
  /\ UNCHANGED <<invocation, inputFile, validation, allLines, categoryCounts,
                 contrastAdjustments, darkContrastAdjustments, written,
                 colorVars, contrastVars, historyVars, searchVars, lintVars, valVars, registryVars>>

\* rupa.name and rupa.version are read: a TypeError for the parsed null.
ReadBrand ==
  /\ pc = "brand"
  /\ IF rupa.kind = "null"
     THEN /\ console' = console
          /\ pc' = "threw"
     ELSE /\ console' = console
               \o <<Log("  Reading: " \o inputPath),
                    Log("  Brand:   " \o Text(OrElse(Get(rupa, "name"), Str("unnamed")))
                        \o " v" \o Text(OrElse(Get(rupa, "version"), Str("0.0.0")))),
                    Log("")>>
          /\ pc' = "validate"
  /\ UNCHANGED <<invocation, inputFile, rupa, validation, allLines, categoryCounts,
                 contrastAdjustments, darkContrastAdjustments, written,
                 colorVars, contrastVars, historyVars, searchVars, lintVars, valVars, registryVars>>

\* The block "Validate": the warnings are printed, and the errors with
\* process.exit(1) where there are any.
Validate ==
  /\ pc = "validate"
  /\ LET result == validateRupa(rupa)
         warned ==
           IF Len(result.warnings) > 0
           THEN <<Log("  ! " \o ToString(Len(result.warnings)) \o " warning(s):")>>
                \o [i \in 1..Len(result.warnings) |->
                      Log("    . " \o MessageText(result.warnings[i]))]
                \o <<Log("")>>
           ELSE <<>>
     IN /\ validation' = Validated(result)
        /\ IF ~result.valid
           THEN /\ console' = console \o warned
                     \o <<Error("  x " \o ToString(Len(result.errors))
                                \o " validation error(s):")>>
                     \o [i \in 1..Len(result.errors) |->
                           Error("    x " \o MessageText(result.errors[i]))]
                     \o <<Error(""), Error("  Fix the errors above and recompile.")>>
                /\ pc' = "exit1"
           ELSE /\ console' = console \o warned
                /\ pc' = "header"
  /\ UNCHANGED <<invocation, inputFile, rupa, allLines, categoryCounts,
                 contrastAdjustments, darkContrastAdjustments, written,
                 colorVars, contrastVars, historyVars, searchVars, lintVars, valVars, registryVars>>

\* The times new Date() reads.
Timestamps == {"2026-01-01 00:00:00 UTC", "2026-01-01 00:00:01 UTC"}

GenerateHeader ==
  /\ pc = "header"
  /\ \E timestamp \in Timestamps :
       allLines' = <<generateFileHeader(rupa, timestamp)>>
  /\ categoryCounts' = <<>>
  /\ pc' = "varna"
  /\ UNCHANGED <<invocation, inputFile, rupa, validation, contrastAdjustments,
                 darkContrastAdjustments, written, console,
                 colorVars, contrastVars, historyVars, searchVars, lintVars, valVars, registryVars>>

Count(cat, count) == [cat |-> cat, count |-> count]

GenerateVarna ==
  /\ pc = "varna"
  /\ LET varnaResult == generateVarnaSection(tokens, rupa) IN
       /\ allLines' = allLines \o varnaResult.lines
       /\ categoryCounts' = Append(categoryCounts, Count("varna", varnaResult.count))
  /\ pc' = "dark"
  /\ UNCHANGED <<invocation, inputFile, rupa, validation, contrastAdjustments,
                 darkContrastAdjustments, written, console,
                 colorVars, contrastVars, historyVars, searchVars, lintVars, valVars, registryVars>>

GenerateDarkMode ==
  /\ pc = "dark"
  /\ LET darkResult == generateDarkMode(rupa) IN
       IF darkResult.count > 0
       THEN /\ allLines' = allLines \o darkResult.lines
            /\ categoryCounts' =
                 Append(categoryCounts, Count("varna (dark)", darkResult.count))
       ELSE UNCHANGED <<allLines, categoryCounts>>
  /\ pc' = "lipi"
  /\ UNCHANGED <<invocation, inputFile, rupa, validation, contrastAdjustments,
                 darkContrastAdjustments, written, console,
                 colorVars, contrastVars, historyVars, searchVars, lintVars, valVars, registryVars>>

GenerateLipi ==
  /\ pc = "lipi"
  /\ LET lipiResult == generateLipiSection(tokens, rupa) IN
       /\ allLines' = allLines \o lipiResult.lines
       /\ categoryCounts' = Append(categoryCounts, Count("lipi", lipiResult.count))
  /\ pc' = "akasa"
  /\ UNCHANGED <<invocation, inputFile, rupa, validation, contrastAdjustments,
                 darkContrastAdjustments, written, console,
                 colorVars, contrastVars, historyVars, searchVars, lintVars, valVars, registryVars>>

GenerateAkasa ==
  /\ pc = "akasa"
  /\ LET akasaResult == generateAkasaSection(tokens, rupa) IN
       /\ allLines' = allLines \o akasaResult.lines
       /\ categoryCounts' = Append(categoryCounts, Count("akasa", akasaResult.count))
  /\ pc' = "generic"
  /\ UNCHANGED <<invocation, inputFile, rupa, validation, contrastAdjustments,
                 darkContrastAdjustments, written, console,
                 colorVars, contrastVars, historyVars, searchVars, lintVars, valVars, registryVars>>

\* The loop "Remaining categories".
GenerateGeneric ==
  /\ pc = "generic"
  /\ LET made == SelectSeq(genericCategories,
                           LAMBDA cat : GenericResult(rupa, cat).made)
     IN /\ allLines' = allLines
             \o ConcatAll([i \in 1..Len(made) |->
                  GenericResult(rupa, made[i]).result.lines])
        /\ categoryCounts' = categoryCounts
             \o [i \in 1..Len(made) |->
                  Count(made[i], GenericResult(rupa, made[i]).result.count)]
  /\ pc' = "nirmana"
  /\ UNCHANGED <<invocation, inputFile, rupa, validation, contrastAdjustments,
                 darkContrastAdjustments, written, console,
                 colorVars, contrastVars, historyVars, searchVars, lintVars, valVars, registryVars>>

\* The block "Nirmana (structural defaults)" where nirmana has components,
\* for the adjustments found; a TypeError thrown in it ends the compile.
NirmanaBlock(found, nirmanaResult, contrastResult) ==
  IF found.threw
  THEN /\ pc' = "threw"
       /\ UNCHANGED <<allLines, categoryCounts, contrastAdjustments>>
  ELSE IF nirmanaResult.threw
  THEN /\ pc' = "threw"
       /\ contrastAdjustments' = found.adjustments
       /\ UNCHANGED <<allLines, categoryCounts>>
  ELSE IF Len(found.adjustments) = 0
  THEN /\ pc' = "darkContrast"
       /\ contrastAdjustments' = found.adjustments
       /\ allLines' = allLines \o nirmanaResult.lines
       /\ categoryCounts' =
            Append(categoryCounts, Count("nirmana", nirmanaResult.count))
  ELSE IF contrastResult.threw
  THEN /\ pc' = "threw"
       /\ contrastAdjustments' = found.adjustments
       /\ allLines' = allLines \o nirmanaResult.lines
       /\ categoryCounts' =
            Append(categoryCounts, Count("nirmana", nirmanaResult.count))
  ELSE /\ pc' = "darkContrast"
       /\ contrastAdjustments' = found.adjustments
       /\ allLines' = allLines \o nirmanaResult.lines \o contrastResult.lines
       /\ categoryCounts' = categoryCounts
            \o <<Count("nirmana", nirmanaResult.count),
                 Count("nirmana (adjusted)", contrastResult.count)>>

GenerateNirmana ==
  /\ pc = "nirmana"
  /\ IF Truthy(Get(rupa, "nirmana")) /\ Len(Entries(Get(rupa, "nirmana"))) > 0
     THEN \E found \in {generateContrastAdjustments(rupa, buildColorMap(tokens, rupa))} :
            \E nirmanaResult \in {generateNirmanaSection(rupa, found.adjustments)} :
              \E contrastResult \in {generateContrastAdjustmentCSS(found.adjustments)} :
                NirmanaBlock(found, nirmanaResult, contrastResult)
     ELSE /\ pc' = "darkContrast"
          /\ contrastAdjustments' = <<>>
          /\ UNCHANGED <<allLines, categoryCounts>>
  /\ UNCHANGED <<invocation, inputFile, rupa, validation,
                 darkContrastAdjustments, written, console,
                 colorVars, contrastVars, historyVars, searchVars, lintVars, valVars, registryVars>>

\* The block "Dark mode contrast adjustments" where the brand has a dark
\* palette and components, for the adjustments found.
DarkContrastBlock(found, made) ==
  IF found.threw
  THEN /\ pc' = "threw"
       /\ UNCHANGED <<allLines, categoryCounts, darkContrastAdjustments>>
  ELSE IF Len(found.adjustments) = 0
  THEN /\ pc' = "policy"
       /\ darkContrastAdjustments' = found.adjustments
       /\ UNCHANGED <<allLines, categoryCounts>>
  ELSE IF made.threw
  THEN /\ pc' = "threw"
       /\ darkContrastAdjustments' = found.adjustments
       /\ UNCHANGED <<allLines, categoryCounts>>
  ELSE /\ pc' = "policy"
       /\ darkContrastAdjustments' = found.adjustments
       /\ allLines' = allLines \o made.lines
       /\ categoryCounts' =
            Append(categoryCounts, Count("nirmana (dark adjusted)", made.count))

GenerateDarkContrast ==
  /\ pc = "darkContrast"
  /\ IF Truthy(OptionalGet(Get(rupa, "varna"), "dark")) /\ Truthy(Get(rupa, "nirmana"))
     THEN \E found \in {generateContrastAdjustments(rupa, buildDarkColorMap(tokens, rupa))} :
            \E made \in {darkContrastLines(found.adjustments)} :
              DarkContrastBlock(found, made)
     ELSE /\ pc' = "policy"
          /\ darkContrastAdjustments' = <<>>
          /\ UNCHANGED <<allLines, categoryCounts>>
  /\ UNCHANGED <<invocation, inputFile, rupa, validation, contrastAdjustments,
                 written, console, colorVars, contrastVars, historyVars, searchVars, lintVars, valVars, registryVars>>

\* The accessibility overrides and the final newline.
GeneratePolicy ==
  /\ pc = "policy"
  /\ allLines' = allLines \o generateAccessibilityOverrides \o <<"">>
  /\ pc' = "write"
  /\ UNCHANGED <<invocation, inputFile, rupa, validation, categoryCounts,
                 contrastAdjustments, darkContrastAdjustments, written, console,
                 colorVars, contrastVars, historyVars, searchVars, lintVars, valVars, registryVars>>

\* writeFileSync(outputPath, css)
WriteOutput ==
  /\ pc = "write"
  /\ written' = Append(written, [path |-> outputPath, text |-> css])
  /\ pc' = "report"
  /\ UNCHANGED <<invocation, inputFile, rupa, validation, allLines, categoryCounts,
                 contrastAdjustments, darkContrastAdjustments, console,
                 colorVars, contrastVars, historyVars, searchVars, lintVars, valVars, registryVars>>

RECURSIVE SumCounts(_)
SumCounts(counts) ==
  IF counts = <<>> THEN 0 ELSE Head(counts).count + SumCounts(Tail(counts))

RECURSIVE FirstPerRole(_, _)
\* The adjustments the report shows: the first of each component and role.
FirstPerRole(adjustments, shown) ==
  IF adjustments = <<>> THEN shown
  ELSE FirstPerRole(Tail(adjustments),
         IF \E i \in 1..Len(shown) :
              shown[i].component \o "-" \o shown[i].role
              = Head(adjustments).component \o "-" \o Head(adjustments).role
         THEN shown
         ELSE Append(shown, Head(adjustments)))

\* The block "Contrast report".
contrastReport ==
  LET allAdjustments == contrastAdjustments \o darkContrastAdjustments
      shown == FirstPerRole(allAdjustments, <<>>)
      nirmana == Get(rupa, "nirmana")
  IN IF Len(allAdjustments) > 0
     THEN <<Log("  Contrast adjustments (AAA 7:1):")>>
          \o [i \in 1..Len(shown) |->
                Log("    " \o padEnd(shown[i].component, 12) \o " "
                    \o padEnd(shown[i].role, 10) \o " " \o shown[i].originalHex
                    \o " > " \o shown[i].adjustedHex \o "  (was "
                    \o toFixed1(shown[i].originalRatio) \o ":1, now "
                    \o toFixed1(shown[i].newRatio) \o ":1)")]
          \o <<Log("")>>
     ELSE IF Truthy(nirmana) /\ Len(Entries(nirmana)) > 0
     THEN <<Log("  v All text colors pass AAA contrast (7:1)"), Log("")>>
     ELSE <<>>

\* The block "Verbose: poetic token details".
verboseReport ==
  LET allPoetic == ALL_TOKENS(tokens)
      akasa == Get(rupa, "akasa")
      scale == OptionalGet(Get(rupa, "lipi"), "scale")
  IN <<Log(""), Log("  Poetic token resolution:"), Log("")>>
     \o [i \in 1..Len(allPoetic.kids) |->
          LET name == allPoetic.kids[i].key
              token == allPoetic.kids[i].value
              resolvedValue ==
                IF Truthy(Get(spatialTokens(tokens), name))
                   /\ Truthy(OptionalGet(akasa, name))
                THEN Get(akasa, name)
                ELSE IF Truthy(Get(voiceTokens(tokens), name))
                        /\ Truthy(OptionalGet(scale, name))
                THEN Get(scale, name)
                ELSE Get(token, "defaultValue")
          IN Log("    " \o padEnd(Text(Get(token, "sanskrit")), 12) \o " "
                 \o padEnd(Text(Get(token, "cssProperty")), 28) \o " > "
                 \o Text(resolvedValue))]

\* The report after the write. (The size in KB that the line "Compiled"
\* also gives is left out: it counts the bytes of characters that the
\* model writes in ASCII.)
Report ==
  /\ pc = "report"
  /\ console' = console
       \o <<Log("  Token counts:")>>
       \o [i \in 1..Len(categoryCounts) |->
             Log("    " \o padEnd(categoryCounts[i].cat, 16) \o " "
                 \o ToString(categoryCounts[i].count))]
       \o <<Log("    " \o Repeat("-", 24)),
            Log("    " \o padEnd("total", 16) \o " "
                \o ToString(SumCounts(categoryCounts))),
            Log(""),
            Log("  Compiled " \o ToString(SumCounts(categoryCounts))
                \o " tokens > " \o outputPath),
            Log("")>>
       \o contrastReport
       \o (IF Truthy(invocation.verbose) THEN verboseReport ELSE <<>>)
       \o <<Log(""),
            Log("  v Rupa compiled. The form arises from the tokens."),
            Log("")>>
  /\ pc' = "done"
  /\ UNCHANGED <<invocation, inputFile, rupa, validation, allLines, categoryCounts,
                 contrastAdjustments, darkContrastAdjustments, written,
                 colorVars, contrastVars, historyVars, searchVars, lintVars, valVars, registryVars>>

NextCompile ==
  \/ CheckInput
  \/ ReadAndParse
  \/ ReadBrand
  \/ Validate
  \/ GenerateHeader
  \/ GenerateVarna
  \/ GenerateDarkMode
  \/ GenerateLipi
  \/ GenerateAkasa
  \/ GenerateGeneric
  \/ GenerateNirmana
  \/ GenerateDarkContrast
  \/ GeneratePolicy
  \/ WriteOutput
  \/ Report

Init ==
  /\ IdleColor
  /\ IdleValidate
  /\ IdleRegistry
  /\ IdleContrast
  /\ IdleSearch
  /\ IdleLint
  /\ invocation \in Invocations
  /\ inputFile \in InputFiles
  /\ pc = "start"
  /\ rupa = Undefined
  /\ validation = NotValidated
  /\ allLines = <<>>
  /\ categoryCounts = <<>>
  /\ contrastAdjustments = <<>>
  /\ darkContrastAdjustments = <<>>
  /\ written = <<>>
  /\ console = <<>>
  /\ earlier = {}

Next == NextCompile

Spec == Init /\ [][Next]_vars

(* ---------------------------------------------------------------------- *)
(* The callers of adjustForContrast: a direct call, or a compile          *)
(* ---------------------------------------------------------------------- *)

\* The most tokenCompile calls one after another.
MaxCompiles == 3

\* The brand files compiled more than once.
RepeatFiles == FullFiles

\* tokenCompile has returned and is called again with the same arguments,
\* on the same file or on another one.  The lines, the counts and the
\* adjustment lists are locals of the call that returned.
CallAgain ==
  /\ pc = "done"
  /\ written # <<>>
  /\ inputFile.value \in RepeatFiles
  /\ Cardinality(earlier) + 1 < MaxCompiles
  /\ earlier' = earlier \cup {[n |-> Cardinality(earlier) + 1,
                                file |-> inputFile.value,
                                lines |-> allLines,
                                text |-> written[1].text]}
  /\ \E value \in RepeatFiles :
       inputFile' = [exists |-> TRUE, parses |-> TRUE, value |-> value]
  /\ pc' = "start"
  /\ rupa' = Undefined
  /\ validation' = NotValidated
  /\ allLines' = <<>>
  /\ categoryCounts' = <<>>
  /\ contrastAdjustments' = <<>>
  /\ darkContrastAdjustments' = <<>>
  /\ written' = <<>>
  /\ console' = <<>>
  /\ UNCHANGED <<invocation, colorVars, contrastVars, valVars, registryVars,
                 searchVars, lintVars>>

NextRepeat == NextCompile \/ CallAgain

SpecRepeat == Init /\ [][NextRepeat]_vars

InitAdjustments == InitContrast \/ Init

NextAdjustments == NextContrast \/ NextCompile

SpecAdjustments == InitAdjustments /\ [][NextAdjustments]_vars

(* ---------------------------------------------------------------------- *)
(* Properties of tokenCompile                                             *)
(* ---------------------------------------------------------------------- *)

HasCount(cat) == \E i \in 1..Len(categoryCounts) : categoryCounts[i].cat = cat

HasComponents == Truthy(Get(rupa, "nirmana")) /\ Len(Entries(Get(rupa, "nirmana"))) > 0

\* The compile has generated every section: the required categories, the
\* components and their adjusted colours where the brand has them, and the
\* policy blocks with the final empty line at the end.
AllSectionsGenerated ==
  /\ pc \in {"report", "done"}
  /\ HasCount("varna") /\ HasCount("lipi") /\ HasCount("akasa")
  /\ HasComponents => HasCount("nirmana")
  /\ contrastAdjustments # <<>> => HasCount("nirmana (adjusted)")
  /\ darkContrastAdjustments # <<>> => HasCount("nirmana (dark adjusted)")
  /\ Len(allLines) > Len(generateAccessibilityOverrides) + 1
  /\ SubSeq(allLines, Len(allLines) - Len(generateAccessibilityOverrides),
            Len(allLines))
       = generateAccessibilityOverrides \o <<"">>

\* C1: the stylesheet is written at most once, only after validateRupa
\* returned valid and every section was generated, and it is the complete
\* text; a missing or unparsable file or a file with a validation error
\* leads to no write at all.
C1_WrittenOnceWhenComplete ==
  /\ Len(written) <= 1
  /\ Len(written) = 1 =>
       /\ validation.called
       /\ validation.valid
       /\ AllSectionsGenerated
       /\ written[1] = [path |-> outputPath, text |-> css]
  /\ (\/ ~inputFile.exists
      \/ ~inputFile.parses
      \/ (validation.called /\ Len(validation.errors) > 0)) => written = <<>>

\* The case of C1 happens: a compile that adjusted colours has ended with
\* its one write.
C1_Witness ==
  /\ pc = "done"
  /\ Len(written) = 1
  /\ contrastAdjustments # <<>>

\* C3: valid is true exactly when there are no errors, and a file with
\* warnings and no errors is compiled fully: the compile does not stop
\* before the write, every section is generated, the stylesheet is written
\* and the warnings are printed.
C3_WarningsOnlyCompilesFully ==
  validation.called =>
    /\ validation.valid <=> (Len(validation.errors) = 0)
    /\ (Len(validation.errors) = 0 /\ Len(validation.warnings) > 0) =>
         /\ pc \notin {"threw", "exit1"}
         /\ \A i \in 1..Len(validation.warnings) :
              Log("    . " \o MessageText(validation.warnings[i])) \in Range(console)
         /\ pc \in {"report", "done"} =>
              (Len(written) = 1 /\ AllSectionsGenerated)

\* The categories tokenCompile reads from a brand file and emits.
EmittedCategories == Range(ALL_CATEGORIES) \cup {"nirmana"}

\* C6: the warning "unknown top-level key ... will be ignored" is given only
\* for keys that are no metadata field and no category of the brand file;
\* nirmana, which tokenCompile reads and emits, never gets it.
C6_UnknownKeyWarningOnlyForUndeclared ==
  validation.called =>
    \A i \in 1..Len(validation.warnings) :
      validation.warnings[i].type = "unknown-top-level-key-ignored" =>
        validation.warnings[i].name
          \notin Range(METADATA_FIELDS) \cup EmittedCategories

\* The declarations of a poetic token's property among the lines.
EmittedLines(token) ==
  {allLines[i] : i \in {j \in 1..Len(allLines) :
     StartsWith(allLines[j], ":root { " \o Get(token, "cssProperty").val \o ": ")}}

\* The declaration the resolver's value gives a token.
ResolvedLine(name, brandValues) ==
  cssLine(Get(tokens[name], "cssProperty"),
          resolveToken(tokens, name,
                       IF IsObject(brandValues) THEN brandValues ELSE Obj(<<>>)).value)

\* C10: in a compiled stylesheet the one declaration of every spatial token
\* and of every voice token carries resolveToken(n, brand values): the
\* brand's value at akasa[n] (lipi.scale[n]) where the brand supplies one,
\* the registry default otherwise.
C10_EmittedValueIsResolvedValue ==
  pc \in {"report", "done"} =>
    /\ \A n \in Range(SPATIAL_TOKEN_NAMES) :
         EmittedLines(tokens[n]) = {ResolvedLine(n, Get(rupa, "akasa"))}
    /\ \A n \in Range(VOICE_TOKEN_NAMES) :
         EmittedLines(tokens[n])
           = {ResolvedLine(n, OptionalGet(Get(rupa, "lipi"), "scale"))}

\* The lines that declare prop for every colour scheme: a declaration of
\* the :root block of a section, or a :root rule of its own.
RootDeclarations(prop) ==
  {i \in 1..Len(allLines) :
     \/ StartsWith(allLines[i], "  " \o prop \o ": ")
     \/ StartsWith(allLines[i], ":root { " \o prop \o ": ")}

\* The last of them is the declaration of the value v.
LastDeclares(prop, v) ==
  /\ RootDeclarations(prop) # {}
  /\ LET last == CHOOSE i \in RootDeclarations(prop) :
                    \A j \in RootDeclarations(prop) : j <= i
     IN allLines[last] \in {"  " \o prop \o ": " \o v \o ";",
                            ":root { " \o prop \o ": " \o v \o "; }"}

\* The colour the brand supplies for the communicative token n, undefined
\* where it supplies none.
BrandColour(n) == OptionalGet(Get(rupa, "varna"), n)

\* C11: where the brand supplies a colour at varna[n] for a communicative
\* token n, the last declaration of the token's property in the stylesheet
\* carries the brand's colour, and the colour map of the contrast pass holds
\* the brand's colour for n.
C11_CommunicativeBrandValueWins ==
  pc \in {"report", "done"} =>
    \A n \in Range(COMMUNICATIVE_TOKEN_NAMES) :
      (BrandColour(n).kind = "str" /\ StartsWith(BrandColour(n).val, "#")) =>
        /\ LastDeclares(Get(tokens[n], "cssProperty").val, BrandColour(n).val)
        /\ HasComponents => Get(buildColorMap(tokens, rupa), n) = BrandColour(n)

\* The optional categories that have declared defaults.
DefaultedCategories ==
  {c \in Range(genericCategories) : Len(Entries(Get(DEFAULTS, c))) > 0}

\* The properties the brand supplies in category cat.
BrandProperties(cat) ==
  IF IsObject(Get(rupa, cat))
  THEN KeySet(flattenTokens(Get(rupa, cat), "--bodhi-" \o cat))
  ELSE {}

\* C12: for every optional category with declared defaults, every default
\* key the brand does not supply is declared with its default value, where
\* the category is missing and where the brand supplies some of its keys.
C12_DefaultsMergedPerKey ==
  pc \in {"report", "done"} =>
    \A cat \in DefaultedCategories :
      \A i \in 1..Len(Entries(Get(DEFAULTS, cat))) :
        LET default == Entries(Get(DEFAULTS, cat))[i]
            prop == "--bodhi-" \o cat \o "-" \o default.key
        IN prop \notin BrandProperties(cat) =>
             ("  " \o prop \o ": " \o default.value.val \o ";") \in Range(allLines)

\* s has sub as a substring.
Contains(s, sub) ==
  \E i \in 1..(Len(s) - Len(sub) + 1) : SubSeq(s, i, i + Len(sub) - 1) = sub

\* The sections of a stylesheet in their order.
SectionOrder ==
  <<"header", "varna", "varna (dark)", "lipi", "akasa", "pramana", "sima",
    "chaya", "pratima", "calana", "ghanatva", "yukti", "nirmana",
    "nirmana (adjusted)", "nirmana (dark adjusted)", "policy">>

\* The places in SectionOrder of the sections opened by a category header.
CategoryPlaces == {2} \cup (4..13)

\* The section a line opens, as its place in SectionOrder, or 0.
SectionOf(line) ==
  IF ~StartsWith(line, "/*") THEN 0
  ELSE IF StartsWith(line, "/**\n * Bodhi Design Tokens\n") THEN 1
  ELSE IF StartsWith(line, "/* -- Varna: Dark Mode -") THEN 3
  ELSE IF line = "/* -- Nirmana: Contrast-Adjusted Colors ------- */" THEN 14
  ELSE IF line = "/* -- Nirmana: Dark Mode Contrast Adjustments -- */" THEN 15
  ELSE IF StartsWith(line, "/* " \o Repeat("=", 56) \o "\n * Bodhi Enforced - ") THEN 16
  ELSE IF \E a \in CategoryPlaces : line = sectionHeader(SectionOrder[a])
    THEN CHOOSE a \in CategoryPlaces : line = sectionHeader(SectionOrder[a])
  ELSE 0

\* The sections of the stylesheet in the order of their opening lines.
SectionsOf(lines) ==
  SelectSeq([i \in 1..Len(lines) |-> SectionOf(lines[i])], LAMBDA a : a # 0)

Place(section) == CHOOSE a \in 1..Len(SectionOrder) : SectionOrder[a] = section

\* The brand file has entries for the category.
BrandHas(cat) ==
  Truthy(Get(rupa, cat)) /\ IsObject(Get(rupa, cat)) /\ Len(Entries(Get(rupa, cat))) > 0

\* C17: in a compiled stylesheet every section opens at most once, the
\* header is the first line, the sections of the required categories, of
\* the categories the brand supplies and of the policy are there, and the
\* sections that are there follow one another in the fixed order, whatever
\* the order of the keys of the brand file.
C17_SectionsInFixedOrder ==
  pc \in {"report", "done"} =>
    \E sections \in {SectionsOf(allLines)} :
      /\ \A i, j \in 1..Len(sections) : i < j => sections[i] < sections[j]
      /\ SectionOf(allLines[1]) = Place("header")
      /\ \A cat \in {"varna", "lipi", "akasa", "policy"} : Place(cat) \in Range(sections)
      /\ \A cat \in Range(genericCategories) \cup {"nirmana"} :
           BrandHas(cat) => Place(cat) \in Range(sections)
      /\ BrandHas("varna") /\ OptionalGet(Get(rupa, "varna"), "dark").kind = "obj"
           /\ Len(Entries(Get(Get(rupa, "varna"), "dark"))) > 0
             => Place("varna (dark)") \in Range(sections)
      /\ contrastAdjustments # <<>> => Place("nirmana (adjusted)") \in Range(sections)
      /\ darkContrastAdjustments # <<>>
           => Place("nirmana (dark adjusted)") \in Range(sections)

\* The case of C17 happens: a compile has ended with all sixteen sections
\* for a brand file whose keys are in the opposite order.
C17_Witness ==
  /\ pc = "done"
  /\ SectionsOf(allLines) = [a \in 1..Len(SectionOrder) |-> a]
  /\ Entries(rupa)[1].key = "nirmana"
  /\ Entries(rupa)[Len(Entries(rupa))].key = "varna"

\* The two policy blocks and the empty last line, as the stylesheet has them.
PolicyBlocks ==
  <<"@media (prefers-reduced-motion: reduce) {",
    "  :root {",
    "    --bodhi-calana-duration: 0ms;",
    "    --bodhi-calana-easing: linear;",
    "  }",
    "}",
    "",
    "@media (prefers-contrast: more) {",
    "  :root {",
    "    --bodhi-sima-focus-ring: 3px solid currentColor;",
    "  }",
    "}",
    "">>

\* The number of lines that open a block on the media condition.
BlocksOn(condition) ==
  Cardinality({i \in 1..Len(allLines) :
                 StartsWith(allLines[i], "@media (" \o condition \o ")")})

\* C18: every written stylesheet ends with the two policy blocks, the
\* reduced-motion block before the heightened-contrast block, in the same
\* words for every brand file; it has one block of each kind and no line
\* after them but the empty last one.
C18_EndsWithPolicyBlocks ==
  written # <<>> =>
    /\ Len(allLines) > Len(PolicyBlocks)
    /\ SubSeq(allLines, Len(allLines) - Len(PolicyBlocks) + 1, Len(allLines)) = PolicyBlocks
    /\ SectionOf(allLines[Len(allLines) - Len(PolicyBlocks) - 1]) = Place("policy")
    /\ BlocksOn("prefers-reduced-motion: reduce") = 1
    /\ BlocksOn("prefers-contrast: more") = 1
    /\ EndsWith(written[1].text, "\n" \o Join(PolicyBlocks, "\n"))

\* The case of C18 happens: a stylesheet was written for a brand file that
\* has motion and border tokens of its own.
C18_Witness ==
  /\ pc = "done"
  /\ written # <<>>
  /\ BrandHas("calana")
  /\ BrandHas("sima")

\* The name of the property a declaration line declares.
DeclaredProperty(line) ==
  LET start == CHOOSE k \in 1..Len(line) :
                 SubSeq(line, k, k) # " " /\ \A h \in 1..(k - 1) : SubSeq(line, h, h) = " "
      colon == CHOOSE k \in 1..Len(line) :
                 SubSeq(line, k, k) = ":" /\ \A h \in 1..(k - 1) : SubSeq(line, h, h) # ":"
  IN SubSeq(line, start, colon - 1)

\* The duration properties the motion section declares for the root.
DeclaredDurations ==
  {DeclaredProperty(allLines[i]) :
     i \in {j \in 1..Len(allLines) : StartsWith(allLines[j], "  --bodhi-calana-duration")}}

\* The lines inside the reduced-motion block.
ReducedMotionLines ==
  {i \in 1..Len(allLines) :
     \E open \in 1..(i - 1) :
       /\ allLines[open] = "@media (prefers-reduced-motion: reduce) {"
       /\ \A k \in open..i : allLines[k] # "}"}

\* C19: for every duration property the motion section of a compiled
\* stylesheet declares, from the brand file or from the defaults, the
\* reduced-motion block declares the same property as 0ms.
C19_ReducedMotionZeroesDurations ==
  pc \in {"report", "done"} =>
    \A prop \in DeclaredDurations :
      \E i \in ReducedMotionLines : allLines[i] = "    " \o prop \o ": 0ms;"

\* The lines of a text.
RECURSIVE LinesOf(_)
LinesOf(text) ==
  IF \A k \in 1..Len(text) : SubSeq(text, k, k) # "\n" THEN <<text>>
  ELSE LET nl == CHOOSE k \in 1..Len(text) :
                   SubSeq(text, k, k) = "\n"
                   /\ \A h \in 1..(k - 1) : SubSeq(text, h, h) # "\n"
       IN <<SubSeq(text, 1, nl - 1)>> \o LinesOf(SubSeq(text, nl + 1, Len(text)))

\* Two headers are the same but for their one "Generated:" line.
SameButTimestamp(header, other) ==
  \E a \in {LinesOf(header)} : \E b \in {LinesOf(other)} :
    /\ Len(a) = Len(b)
    /\ Cardinality({i \in 1..Len(a) : StartsWith(a[i], " * Generated: ")}) = 1
    /\ \A i \in 1..Len(a) :
         a[i] # b[i] => StartsWith(a[i], " * Generated: ") /\ StartsWith(b[i], " * Generated: ")

AllAdjustments == contrastAdjustments \o darkContrastAdjustments

\* C13: adjustForContrast returns null or a colour whose contrast ratio to
\* the background is at least the target, and every adjustment a compile
\* records, in the light and in the dark pass, has the ratio of its adjusted
\* colour to its background as newRatio, which is at least 7.0.
C13_AdjustedColourIsVerified ==
  /\ adjustResult.called =>
       \/ adjustResult.value = Null
       \/ /\ adjustResult.value.kind = "str"
          /\ RatioAtLeast(contrastRatio(adjustResult.value.val,
                                        adjustArg.background),
                          adjustArg.target)
  /\ \A i \in 1..Len(AllAdjustments) :
       /\ AllAdjustments[i].newRatio
            = contrastRatio(AllAdjustments[i].adjustedHex, AllAdjustments[i].bgHex)
       /\ RatioAtLeast(AllAdjustments[i].newRatio, AAA_RATIO)

\* The case of C13 happens: a compile has recorded adjustments in the light
\* and in the dark pass.
C13_Witness ==
  /\ pc = "done"
  /\ contrastAdjustments # <<>>
  /\ darkContrastAdjustments # <<>>

\* The text colours a pass with colorMap checks on the background of a
\* component: the explicit colour (role "") and the text roles the
\* component does not override, each where it resolves to a string.
CheckedPairs(colorMap) ==
  LET nirmana == OrElse(Get(rupa, "nirmana"), Obj(<<>>))
      PairsOf(e) ==
        LET bgHex == resolveVarToHex(Get(e.value, "bg"), colorMap)
            colorHex == resolveVarToHex(Get(e.value, "color"), colorMap)
        IN IF bgHex.kind # "str" THEN {}
           ELSE (IF colorHex.kind = "str"
                 THEN {[component |-> e.key, role |-> "",
                        textHex |-> colorHex.val, bgHex |-> bgHex.val]}
                 ELSE {})
                \cup {[component |-> e.key, role |-> TEXT_ROLES[i].name,
                       textHex |-> Get(colorMap, TEXT_ROLES[i].source).val,
                       bgHex |-> bgHex.val] :
                        i \in {j \in 1..Len(TEXT_ROLES) :
                          /\ ~HasOwn(e.value, "color-" \o TEXT_ROLES[j].name)
                          /\ Get(colorMap, TEXT_ROLES[j].source).kind = "str"}}
  IN UNION {PairsOf(Entries(nirmana)[i]) :
              i \in {j \in 1..Len(Entries(nirmana)) :
                       IsObject(Entries(nirmana)[j].value)}}

\* The checked pairs below 7.0 for which the search reaches no colour.
UnreachablePairs(colorMap) ==
  {p \in CheckedPairs(colorMap) :
     /\ RatioBelow(contrastRatio(p.textHex, p.bgHex), AAA_RATIO)
     /\ adjustForContrast(p.textHex, p.bgHex, AAA_RATIO) = Null}

\* The unreachable pairs of the passes a compile runs.
UnreachableOfCompile ==
  (IF HasComponents THEN UnreachablePairs(buildColorMap(tokens, rupa)) ELSE {})
  \cup (IF Truthy(OptionalGet(Get(rupa, "varna"), "dark"))
           /\ Truthy(Get(rupa, "nirmana"))
        THEN UnreachablePairs(buildDarkColorMap(tokens, rupa))
        ELSE {})

\* The pair is in the result of the compile: an adjustment is recorded for
\* its component and role, or a printed line names its component and its
\* colour.
Surfaced(p) ==
  \/ \E i \in 1..Len(AllAdjustments) :
       /\ AllAdjustments[i].component = p.component
       /\ AllAdjustments[i].role = p.role
       /\ AllAdjustments[i].originalHex = p.textHex
  \/ \E i \in 1..Len(console) :
       Contains(console[i].text, p.component) /\ Contains(console[i].text, p.textHex)

\* C14: a compile that ended with a pair below 7.0 for which the search
\* reaches no colour has written its stylesheet, shows the pair in its
\* adjustments or in its report, and has not printed that all text colours
\* pass.
C14_UnreachableTargetIsSurfaced ==
  pc = "done" =>
    \A p \in UnreachableOfCompile :
      /\ Len(written) = 1
      /\ Surfaced(p)
      /\ Log("  v All text colors pass AAA contrast (7:1)") \notin Range(console)

\* The components of the brand file that are objects, as entries.
Components ==
  LET nirmana == OrElse(Get(rupa, "nirmana"), Obj(<<>>)) IN
    {Entries(nirmana)[i] : i \in {j \in 1..Len(Entries(nirmana)) :
                                    IsObject(Entries(nirmana)[j].value)}}

\* The component carries an override for the text role: a colour text at
\* its key color-<role>.
HasOverride(componentData, role) ==
  /\ HasOwn(componentData, "color-" \o role)
  /\ Get(componentData, "color-" \o role).kind = "str"
  /\ Get(componentData, "color-" \o role).val # ""

\* The lines that declare the colour of a role of a component, in the
\* section of the components and in the blocks of both passes.
RoleDeclarations(component, role) ==
  {allLines[i] : i \in {j \in 1..Len(allLines) :
     \E indent \in {"  ", "    "} :
       StartsWith(allLines[j], indent \o "--bodhi-nirmana-" \o component
                               \o "-color-" \o role \o ": ")}}

\* C15: a component that carries an override for a text role has no
\* adjustment for that role in the light or in the dark pass, and the
\* stylesheet declares the role's colour once, with the override's value.
C15_OverriddenRoleIsNeverAdjusted ==
  \A e \in Components :
    \A r \in 1..Len(TEXT_ROLES) :
      HasOverride(e.value, TEXT_ROLES[r].name) =>
        /\ \A i \in 1..Len(AllAdjustments) :
             ~(/\ AllAdjustments[i].component = e.key
               /\ AllAdjustments[i].role = TEXT_ROLES[r].name)
        /\ pc \in {"report", "done"} =>
             RoleDeclarations(e.key, TEXT_ROLES[r].name)
               = {"  --bodhi-nirmana-" \o e.key \o "-color-" \o TEXT_ROLES[r].name
                  \o ": " \o Get(e.value, "color-" \o TEXT_ROLES[r].name).val \o ";"}

\* The case of C15 happens: a compile with a light and a dark pass has ended
\* for a component that overrides a role whose colour is below 7.0 on the
\* component's background.
C15_Witness ==
  /\ pc = "done"
  /\ Truthy(OptionalGet(Get(rupa, "varna"), "dark"))
  /\ \E e \in Components :
       \E r \in 1..Len(TEXT_ROLES) :
         /\ HasOverride(e.value, TEXT_ROLES[r].name)
         /\ Get(e.value, "bg").kind = "str"
         /\ Get(buildColorMap(tokens, rupa), TEXT_ROLES[r].source).kind = "str"
         /\ RatioBelow(contrastRatio(
                         Get(buildColorMap(tokens, rupa), TEXT_ROLES[r].source).val,
                         Get(e.value, "bg").val),
                       AAA_RATIO)

\* Palettes to compare a compile with: other colours under the same keys,
\* the two palettes of the brand files, and no colours.
OtherPalettes ==
  {<<>>, LightPalette, DarkPalette,
   <<KV("primary", Str("#7c3aed")), KV("foreground", Str("#111111")),
     KV("muted", Str("#9ca3af")), KV("surface", Str("#fafafa"))>>}

\* The brand file with the light palette replaced, its dark palette kept.
WithLightPalette(palette) ==
  LET dark == OptionalGet(Get(rupa, "varna"), "dark") IN
    SetField(rupa, "varna",
             IF dark = Undefined THEN Obj(palette)
             ELSE Obj(palette \o <<KV("dark", dark)>>))

\* The brand file with the dark palette replaced, its light palette kept.
WithDarkPalette(palette) ==
  SetField(rupa, "varna", SetField(Get(rupa, "varna"), "dark", Obj(palette)))

\* The compile has just run its dark pass, the last of the two.
DarkPassRan ==
  /\ pc = "policy"
  /\ Truthy(OptionalGet(Get(rupa, "varna"), "dark"))
  /\ Truthy(Get(rupa, "nirmana"))

\* The compile has run its light pass and is past the dark one.
LightPassRan ==
  /\ pc = "policy"
  /\ HasComponents

\* C16: the light colour map and the adjustments of the light pass are the
\* same for every dark palette, and the dark colour map and the adjustments
\* of the dark pass are the same for every light palette.
C16_PassesAreIndependent ==
  /\ LightPassRan =>
       \A p \in OtherPalettes :
         /\ buildColorMap(tokens, WithDarkPalette(p)) = buildColorMap(tokens, rupa)
         /\ generateContrastAdjustments(WithDarkPalette(p),
               buildColorMap(tokens, WithDarkPalette(p))).adjustments
              = contrastAdjustments
  /\ DarkPassRan =>
       \A p \in OtherPalettes :
         /\ buildDarkColorMap(tokens, WithLightPalette(p))
              = buildDarkColorMap(tokens, rupa)
         /\ generateContrastAdjustments(WithLightPalette(p),
               buildDarkColorMap(tokens, WithLightPalette(p))).adjustments
              = darkContrastAdjustments

\* The case of C16 happens: both passes of a compile have run on palettes
\* that differ and each has recorded adjustments of its own.
C16_Witness ==
  /\ LightPassRan
  /\ DarkPassRan
  /\ buildColorMap(tokens, rupa) # buildDarkColorMap(tokens, rupa)
  /\ contrastAdjustments # <<>>
  /\ darkContrastAdjustments # <<>>
  /\ contrastAdjustments # darkContrastAdjustments

(* ---------------------------------------------------------------------- *)
(* Properties of the validator                                            *)
(* ---------------------------------------------------------------------- *)

RECURSIVE InvalidColourPaths(_, _)
\* The paths of the string leaves under v, at any depth and under any key,
\* that are not colours.
InvalidColourPaths(v, path) ==
  UNION {LET kid == v.kids[i].value
             kidPath == path \o "." \o v.kids[i].key
         IN IF IsObject(kid) THEN InvalidColourPaths(kid, kidPath)
            ELSE IF kid.kind = "str" /\ ~isValidCSSColor(kid) THEN {kidPath}
            ELSE {}
         : i \in 1..Len(v.kids)}

InvalidUnderVarna(brand) ==
  IF IsObject(Get(brand, "varna"))
  THEN InvalidColourPaths(Get(brand, "varna"), "varna")
  ELSE {}

ErrorsOfType(type) ==
  {i \in 1..Len(valResult.errors) : valResult.errors[i].type = type}

MissingRequired(brand) ==
  {c \in Range(REQUIRED_CATEGORIES) : ~Truthy(Get(brand, c))}

\* C2: one call of validateRupa on an object returns exactly one error per
\* missing required category, naming it, plus one error per invalid colour
\* string under varna, and nothing else.
C2_AllErrorsTogether ==
  (valResult.called /\ valArg.kind = "obj") =>
    /\ \A c \in Range(REQUIRED_CATEGORIES) :
         Cardinality({i \in ErrorsOfType("missing-required-category") :
                        valResult.errors[i].name = c})
           = IF c \in MissingRequired(valArg) THEN 1 ELSE 0
    /\ Cardinality(ErrorsOfType("invalid-color"))
         = Cardinality(InvalidUnderVarna(valArg))
    /\ Len(valResult.errors)
         = Cardinality(MissingRequired(valArg))
           + Cardinality(InvalidUnderVarna(valArg))

\* Scenario A of C2 happens: a file that omits only varna has been validated
\* and its error list is the one entry naming varna.
C2_ScenarioA ==
  /\ valResult.called
  /\ valArg.kind = "obj"
  /\ MissingRequired(valArg) = {"varna"}
  /\ valResult.errors = <<Message("missing-required-category", "varna", "")>>

\* C4: every string leaf under varna that is not a colour, at any depth and
\* inside the dark sub-object too, has a validation error naming its path, so
\* the file is not valid.
C4_EveryInvalidLeafIsAnError ==
  (valResult.called /\ valArg.kind = "obj") =>
    /\ \A p \in InvalidUnderVarna(valArg) :
         \E i \in ErrorsOfType("invalid-color") : valResult.errors[i].name = p
    /\ (InvalidUnderVarna(valArg) # {} => ~valResult.valid)

\* The unknown keys of a file: top-level keys that are no category and no
\* metadata field, akasa keys that are no spatial token, lipi.scale keys
\* that are no voice token.
UnknownTopLevelKeys(brand) ==
  KeySet(brand) \ Range(ALL_CATEGORIES \o METADATA_FIELDS)

UnknownAkasaKeys(brand) ==
  IF IsObject(Get(brand, "akasa"))
  THEN KeySet(Get(brand, "akasa")) \ Range(SPATIAL_TOKEN_NAMES)
  ELSE {}

UnknownScaleKeys(brand) ==
  IF IsObject(Get(brand, "lipi")) /\ IsObject(Get(Get(brand, "lipi"), "scale"))
  THEN KeySet(Get(Get(brand, "lipi"), "scale")) \ Range(VOICE_TOKEN_NAMES)
  ELSE {}

HasWarning(type, name) ==
  \E i \in 1..Len(valResult.warnings) :
    valResult.warnings[i].type = type /\ valResult.warnings[i].name = name

\* C7: every unknown top-level key, unknown akasa key and unknown lipi.scale
\* key adds a warning and no error: the errors are those of the missing
\* required categories and of the colours alone, and valid says exactly that
\* there are none of these.
C7_UnknownKeysOnlyWarn ==
  (valResult.called /\ valArg.kind = "obj") =>
    /\ \A k \in UnknownTopLevelKeys(valArg) :
         HasWarning("unknown-top-level-key-ignored", k)
    /\ \A k \in UnknownAkasaKeys(valArg) :
         HasWarning("unrecognized-spatial-token", k)
    /\ \A k \in UnknownScaleKeys(valArg) :
         HasWarning("unrecognized-voice-token", k)
    /\ \A i \in 1..Len(valResult.errors) :
         /\ valResult.errors[i].type
              \in {"missing-required-category", "invalid-color"}
         /\ valResult.errors[i].name
              \notin UnknownTopLevelKeys(valArg) \cup UnknownAkasaKeys(valArg)
                     \cup UnknownScaleKeys(valArg)
    /\ valResult.valid
         = (MissingRequired(valArg) = {} /\ ErrorsOfType("invalid-color") = {})

\* The case of C7 happens: a validated file with an unknown key of each of
\* the three sorts is valid.
C7_Witness ==
  /\ valResult.called
  /\ valArg.kind = "obj"
  /\ UnknownTopLevelKeys(valArg) # {}
  /\ UnknownAkasaKeys(valArg) # {}
  /\ UnknownScaleKeys(valArg) # {}
  /\ valResult.valid

(* ---------------------------------------------------------------------- *)
(* Properties of the colour grammar                                       *)
(* ---------------------------------------------------------------------- *)

\* '#' followed by hex digits only (at least none).
IsHashHex(s) ==
  StartsWith(s, "#") /\ \A i \in 2..Len(s) : LowerChar(Char(s, i)) \in HexDigitChars

\* C5: a string '#' + hex digits is accepted by isValidCSSColor exactly when
\* it has 3, 4, 6 or 8 digits.
C5_HexDigitCounts ==
  (colorResult # "none" /\ IsHashHex(colorArg)) =>
    (colorResult = "valid" <=> (Len(colorArg) - 1) \in {3, 4, 6, 8})

(* ---------------------------------------------------------------------- *)
(* Properties of the token registry                                       *)
(* ---------------------------------------------------------------------- *)

\* The overrides the caller passed, with the default of the parameter.
PassedOverrides ==
  IF resolved.overrides.kind = "undefined" THEN Obj(<<>>) ELSE resolved.overrides

\* C8: resolveToken returns overrides[name] when overrides has a value for a
\* registry name and the registry default otherwise, and for every name that
\* is no registry token it throws, whatever overrides holds.
C8_ResolveToken ==
  resolved.called =>
    IF resolved.name \in DOMAIN tokens
    THEN /\ resolved.outcome = "return"
         /\ resolved.value =
              IF HasOwn(PassedOverrides, resolved.name)
              THEN Get(PassedOverrides, resolved.name)
              ELSE Get(tokens[resolved.name], "defaultValue")
    ELSE resolved.outcome = "throw"

\* C9: the registry never changes: whatever the callers did with the objects
\* getAllTokens gave them, resolveToken(name, {}) returns the original
\* default, and the token definitions a snapshot holds are the original ones.
C9_RegistryNeverChanges ==
  /\ (resolved.called /\ resolved.name \in DOMAIN tokens
      /\ ~HasOwn(PassedOverrides, resolved.name)) =>
        resolved.value = Get(InitialTokens[resolved.name], "defaultValue")
  /\ \A n \in DOMAIN tokens :
       (snapshot.held /\ snapshot.entries[n] = "token") =>
         tokens[n] = InitialTokens[n]

\* C23: where the light pass of a compile checks the muted colour #4b5563
\* on a component background #1a1a1a, the ratio of the pair rounds to 3.9,
\* an adjustment of the role is recorded whose colour has at least 7.0 on
\* the background, and the line before the adjusted declaration reads
\* "was 3.9:1 > now 7.0:1".
C23_ScenarioC ==
  (pc = "done" /\ HasComponents) =>
    \A p \in CheckedPairs(buildColorMap(tokens, rupa)) :
      (p.role = "muted" /\ p.textHex = "#4b5563" /\ p.bgHex = "#1a1a1a") =>
        /\ toFixed1(contrastRatio(p.textHex, p.bgHex)) = "3.9"
        /\ \E i \in 1..Len(contrastAdjustments) :
             /\ contrastAdjustments[i].component = p.component
             /\ contrastAdjustments[i].role = "muted"
             /\ contrastAdjustments[i].originalHex = "#4b5563"
             /\ RatioAtLeast(contrastRatio(contrastAdjustments[i].adjustedHex, p.bgHex),
                             AAA_RATIO)
        /\ \E j \in 1..(Len(allLines) - 1) :
             /\ allLines[j] = "  /* adjusted from #4b5563 (was 3.9:1 > now 7.0:1) */"
             /\ StartsWith(allLines[j + 1],
                           "  --bodhi-nirmana-" \o p.component \o "-color-muted: ")

(* ---------------------------------------------------------------------- *)
(* Properties of adjustForContrast                                        *)
(* ---------------------------------------------------------------------- *)

\* The hue of hsl in sixths of the circle and its saturation, as fractions;
\* both are 0 for a grey.
HueOf(hsl) == IF hsl.d = 0 THEN [num |-> 0, den |-> 1] ELSE [num |-> hsl.H, den |-> hsl.d]

SaturationOf(hsl) == IF hsl.d = 0 THEN [num |-> 0, den |-> 1] ELSE [num |-> hsl.d, den |-> hsl.sd]

\* The hues a and b are no more than ten degrees apart on the circle.
HueWithinTen(a, b) ==
  \/ 6 * Abs(a.num * b.den - b.num * a.den) <= a.den * b.den
  \/ 6 * (6 * a.den * b.den - Abs(a.num * b.den - b.num * a.den)) <= a.den * b.den

\* The saturations a and b are no more than ten points of a hundred apart.
SaturationWithinTen(a, b) == 10 * Abs(a.num * b.den - b.num * a.den) <= a.den * b.den

\* C21: a colour adjustForContrast returns has, read back by hexToHSL, the
\* hue and the saturation of the foreground it was called with; ten
\* degrees and ten points of a hundred are allowed for the rounding of the
\* channels.
C21_OnlyLightnessChanges ==
  (adjustResult.called /\ adjustResult.value # Null) =>
    /\ HueWithinTen(HueOf(hexToHSL(adjustArg.foreground)),
                    HueOf(hexToHSL(adjustResult.value.val)))
    /\ SaturationWithinTen(SaturationOf(hexToHSL(adjustArg.foreground)),
                           SaturationOf(hexToHSL(adjustResult.value.val)))

\* C22: adjustForContrast returns a foreground that meets the target as it
\* is, and a colour it returns is returned as it is when it is handed in
\* again with the same background and target.
C22_IdentityOnPassingColours ==
  adjustResult.called =>
    /\ meetsContrast(adjustArg.foreground, adjustArg.background, adjustArg.target)
         => adjustResult.value = Str(adjustArg.foreground)
    /\ adjustResult.value # Null
         => adjustForContrast(adjustResult.value.val, adjustArg.background,
                              adjustArg.target) = adjustResult.value

\* The case of C22 happens: a call with a foreground that fails the target
\* has returned a colour other than its foreground.
C22_Witness ==
  /\ adjustResult.called
  /\ adjustResult.value # Null
  /\ adjustResult.value # Str(adjustArg.foreground)
  /\ ~meetsContrast(adjustArg.foreground, adjustArg.background, adjustArg.target)

\* The interval from lower to upper, in steps, is wider than 0.1.
WiderThanATenth(lower, upper) == 1000 * (upper - lower) > LightnessSteps

\* The ratio is within 0.1 of the target, in tenths.
WithinATenth(ratio, target) ==
  /\ 10 * ratio.num < (target + 1) * ratio.den
  /\ 10 * ratio.num > (target - 1) * ratio.den

\* The interval of the search after its i-th candidate.
IntervalAfter(i) ==
  IF i < Len(candidates)
  THEN [minL |-> candidates[i + 1].minL, maxL |-> candidates[i + 1].maxL]
  ELSE [minL |-> minL, maxL |-> maxL]

\* The search has bounds: no more than fifty candidates, each taken from an
\* interval wider than 0.1 and after candidates further than 0.1 from the
\* target; every candidate that does not end the search halves the
\* interval; and the search ends only for one of its three reasons.
SearchBounded ==
  /\ iterations <= maxIterations
  /\ Len(candidates) <= maxIterations
  /\ \A i \in 1..Len(candidates) :
       /\ WiderThanATenth(candidates[i].minL, candidates[i].maxL)
       /\ 2 * candidates[i].testL = candidates[i].minL + candidates[i].maxL
       /\ i < Len(candidates) => ~WithinATenth(candidates[i].ratio, adjustArg.target)
       /\ ~WithinATenth(candidates[i].ratio, adjustArg.target) =>
            2 * (IntervalAfter(i).maxL - IntervalAfter(i).minL)
              = candidates[i].maxL - candidates[i].minL
  /\ (searchPc = "loop" /\ candidates # <<>>) =>
       ~WithinATenth(candidates[Len(candidates)].ratio, adjustArg.target)
  /\ (searchPc \in {"final", "returned"} /\ candidates # <<>>) =>
       \/ WithinATenth(candidates[Len(candidates)].ratio, adjustArg.target)
       \/ ~WiderThanATenth(minL, maxL)
       \/ iterations = maxIterations

\* C25: every call of adjustForContrast returns, and its search evaluates
\* at most 50 candidates, stops as soon as the interval is no wider than
\* 0.1 or a candidate's ratio is within 0.1 of the target, and halves the
\* interval with every candidate that does not end it.
C25_SearchTerminates == []SearchBounded /\ <>(searchPc = "returned")

\* The case of C25 happens: a search has ended on its interval after ten
\* candidates, none of them within 0.1 of the target.
C25_Witness ==
  /\ searchPc = "returned"
  /\ Len(candidates) = 10
  /\ ~WiderThanATenth(minL, maxL)
  /\ ~WithinATenth(candidates[Len(candidates)].ratio, adjustArg.target)

\* C26: in a search a candidate below the target moves the lower end of the
\* interval up to it where the luminance of the background is below 0.5 and
\* the upper end down to it otherwise; a candidate that meets the target
\* moves the other end and is remembered as the best lightness, which a
\* candidate below the target leaves as it was.
C26_DirectionFollowsBackground ==
  \A i \in 1..Len(candidates) :
    ~WithinATenth(candidates[i].ratio, adjustArg.target) =>
      IF 10 * candidates[i].ratio.num < adjustArg.target * candidates[i].ratio.den
      THEN /\ candidates[i].best
                = (IF i = 1 THEN [k |-> hexToHSL(adjustArg.foreground).k,
                                  n |-> hexToHSL(adjustArg.foreground).n]
                   ELSE candidates[i - 1].best)
           /\ IF relativeLuminance(adjustArg.background) < 5000000
              THEN IntervalAfter(i) = [minL |-> candidates[i].testL, maxL |-> candidates[i].maxL]
              ELSE IntervalAfter(i) = [minL |-> candidates[i].minL, maxL |-> candidates[i].testL]
      ELSE /\ candidates[i].best = [k |-> candidates[i].testL, n |-> LightnessSteps]
           /\ IF relativeLuminance(adjustArg.background) < 5000000
              THEN IntervalAfter(i) = [minL |-> candidates[i].minL, maxL |-> candidates[i].testL]
              ELSE IntervalAfter(i) = [minL |-> candidates[i].testL, maxL |-> candidates[i].maxL]

\* The case of C26 happens: a search on a light background has had a
\* candidate below the target and later one that meets it.
C26_Witness ==
  /\ searchPc = "returned"
  /\ \E i, j \in 1..Len(candidates) :
       /\ i < j
       /\ ~WithinATenth(candidates[i].ratio, adjustArg.target)
       /\ ~WithinATenth(candidates[j].ratio, adjustArg.target)
       /\ 10 * candidates[i].ratio.num < adjustArg.target * candidates[i].ratio.den
       /\ 10 * candidates[j].ratio.num >= adjustArg.target * candidates[j].ratio.den
  /\ relativeLuminance(adjustArg.background) >= 5000000

\* C28: a call whose search has evaluated a candidate that meets the target
\* returns a colour.
C28_PassingCandidateIsKept ==
  (searchPc = "returned"
   /\ \E i \in 1..Len(candidates) :
        10 * candidates[i].ratio.num >= adjustArg.target * candidates[i].ratio.den)
    => adjustResult.value # Null

(* ---------------------------------------------------------------------- *)
(* Properties of the colour maps                                          *)
(* ---------------------------------------------------------------------- *)

\* The '#' colours of the palette a pass starts from.
LiteralHexes(dark) ==
  LET palette == IF dark THEN OptionalGet(Get(rupa, "varna"), "dark") ELSE Get(rupa, "varna")
  IN IF Truthy(palette) /\ IsObject(palette) THEN HexEntries(palette, ~dark) ELSE Obj(<<>>)

\* The palette role the default value of a communicative token points to,
\* "" where it points to none.
PointedRole(token) == VarnaRefFrom(Get(token, "defaultValue").val, 1, FALSE)

\* The communicative tokens that point to a role the palette has no '#'
\* colour for have, in the colour map, what the palette itself has at
\* their name.
NoDereferencedEntry(colorMap, hexes) ==
  \A i \in 1..Len(communicativeTokens(tokens).kids) :
    LET e == communicativeTokens(tokens).kids[i] IN
      ~HasOwn(hexes, PointedRole(e.value)) =>
        /\ HasOwn(colorMap, e.key) = HasOwn(hexes, e.key)
        /\ Get(colorMap, e.key) = Get(hexes, e.key)

\* The colour text is a reference the colour map has no entry for: it is
\* no '#' colour, and names no role or a role that is not in the map.
Unresolvable(varString, colorMap) ==
  /\ varString.kind = "str"
  /\ varString.val # ""
  /\ ~StartsWith(varString.val, "#")
  /\ \E key \in {VarnaRefFrom(varString.val, 1, TRUE)} : key = "" \/ ~HasOwn(colorMap, key)

\* The components whose background the colour map cannot resolve.
UnresolvedBackgrounds(colorMap) ==
  {e \in Components : Unresolvable(Get(e.value, "bg"), colorMap)}

\* No adjustment is recorded for a component with an unresolved background,
\* for an unresolved explicit colour, or for a text role the map lacks.
NoRecordOfUnresolved(adjustments, colorMap) ==
  \A i \in 1..Len(adjustments) :
    /\ \A e \in UnresolvedBackgrounds(colorMap) : adjustments[i].component # e.key
    /\ \A e \in Components :
         Unresolvable(Get(e.value, "color"), colorMap) =>
           ~(adjustments[i].component = e.key /\ adjustments[i].role = "")
    /\ \A j \in 1..Len(TEXT_ROLES) :
         ~HasOwn(colorMap, TEXT_ROLES[j].source) => adjustments[i].role # TEXT_ROLES[j].name

\* C27: when a compile with components has ended, a communicative token
\* that points to a role without a '#' colour in the palette of the pass has
\* no dereferenced entry in the colour map of the pass; no adjustment is
\* recorded for a background, a colour or a text role the map cannot
\* resolve; and where a background cannot be resolved the compile has
\* finished, written its stylesheet once and printed no error.
C27_UnresolvedReferencesAreSkipped ==
  (pc \in {"done", "threw"} /\ HasComponents) =>
    \E light \in {buildColorMap(tokens, rupa)} :
      \E dark \in {buildDarkColorMap(tokens, rupa)} :
        /\ NoDereferencedEntry(light, LiteralHexes(FALSE))
        /\ NoDereferencedEntry(dark, LiteralHexes(TRUE))
        /\ NoRecordOfUnresolved(contrastAdjustments, light)
        /\ NoRecordOfUnresolved(darkContrastAdjustments, dark)
        /\ UnresolvedBackgrounds(light) # {} =>
             /\ pc = "done"
             /\ Len(written) = 1
             /\ \A i \in 1..Len(console) : console[i].stream # "error"

\* The colours of a colour map.
ColorsOf(colorMap) == {Entries(colorMap)[i].value.val : i \in 1..Len(Entries(colorMap))}

\* The ratio is a number, and at least 1.
Numeric(ratio) == ~ratio.nan /\ ratio.num >= ratio.den

\* The colour maps of the passes a compile with components runs.
MapsOfCompile ==
  {buildColorMap(tokens, rupa)}
  \cup (IF Truthy(OptionalGet(Get(rupa, "varna"), "dark"))
        THEN {buildDarkColorMap(tokens, rupa)} ELSE {})

\* C29: in a finished compile with components, contrastRatio of any two
\* colours of a colour map is a number that is at least 1, and so is the
\* ratio of every text colour to the background it is checked on.
C29_EveryRatioIsNumeric ==
  (pc = "done" /\ HasComponents) =>
    \A colorMap \in MapsOfCompile :
      /\ \A a, b \in ColorsOf(colorMap) : Numeric(contrastRatio(a, b))
      /\ \A p \in CheckedPairs(colorMap) : Numeric(contrastRatio(p.textHex, p.bgHex))

(* ---------------------------------------------------------------------- *)
(* The JSX nodes the lint rules visit                                     *)
(* ---------------------------------------------------------------------- *)

NoExpression == [type |-> "", value |-> Undefined, name |-> ""]

\* The value of an attribute without one: <input defaultChecked />
NullValue == [type |-> "null", value |-> Undefined, expression |-> NoExpression]

\* A string literal: type="checkbox"
Literal(v) == [type |-> "Literal", value |-> v, expression |-> NoExpression]

\* An expression in braces: defaultChecked={true}
JSXExpressionContainer(e) == [type |-> "JSXExpressionContainer", value |-> Undefined, expression |-> e]

LiteralExpression(v) == [type |-> "Literal", value |-> v, name |-> ""]

Identifier(name) == [type |-> "Identifier", value |-> Undefined, name |-> name]

JSXAttribute(name, value) == [type |-> "JSXAttribute", name |-> name, value |-> value]

\* {...props}
JSXSpreadAttribute == [type |-> "JSXSpreadAttribute", name |-> "", value |-> NullValue]

(* ---------------------------------------------------------------------- *)
(* no-consent-erosion (part_006)                                          *)
(* ---------------------------------------------------------------------- *)

CONSENT_KEYWORDS ==
  <<"consent", "agree", "accept", "subscribe", "newsletter", "marketing",
    "terms", "privacy", "policy", "opt-in", "opt-out", "notifications",
    "emails", "updates", "tracking", "cookies", "analytics", "third-party",
    "share", "data">>

NON_CONSENT_KEYWORDS ==
  <<"remember", "show-password", "toggle", "filter", "sort", "dark-mode",
    "theme", "setting", "preference", "display">>

\* keywords.some((kw) => text.toLowerCase().includes(kw)), false for ''
IncludesAny(text, keywords) ==
  /\ text # ""
  /\ \E lower \in {toLowerCase(text)} : \E i \in 1..Len(keywords) : Contains(lower, keywords[i])

isConsentContext(text) == IncludesAny(text, CONSENT_KEYWORDS)

isNonConsentContext(text) == IncludesAny(text, NON_CONSENT_KEYWORDS)

NoAttribute == [type |-> "", name |-> "", value |-> NullValue]

\* getJSXAttribute(node, attrName): the first attribute of that name,
\* NoAttribute for undefined.
getJSXAttribute(node, attrName) ==
  LET found == SelectSeq(node.attributes,
                 LAMBDA a : a.type = "JSXAttribute" /\ a.name = attrName)
  IN IF found = <<>> THEN NoAttribute ELSE Head(found)

\* getJSXAttributeValue(attr)
getJSXAttributeValue(attr) ==
  IF attr = NoAttribute THEN Undefined
  ELSE IF attr.value.type = "null" THEN Bool("true")
  ELSE IF attr.value.type = "Literal" THEN attr.value.value
  ELSE IF attr.value.type = "JSXExpressionContainer"
  THEN (IF attr.value.expression.type = "Literal" THEN attr.value.expression.value
        ELSE IF attr.value.expression.type = "Identifier"
                /\ attr.value.expression.name = "true" THEN Bool("true")
        ELSE IF attr.value.expression.type = "Identifier"
                /\ attr.value.expression.name = "false" THEN Bool("false")
        ELSE Str("dynamic"))
  ELSE Undefined

CLUE_ATTRIBUTES == <<"id", "name", "className", "aria-label", "aria-describedby", "data-testid">>

\* gatherContextClues(node): the string values of the clue attributes.
gatherContextClues(node) ==
  LET valueOf(i) == getJSXAttributeValue(getJSXAttribute(node, CLUE_ATTRIBUTES[i]))
      present == SelectSeq([i \in 1..Len(CLUE_ATTRIBUTES) |-> i],
                   LAMBDA i : /\ getJSXAttribute(node, CLUE_ATTRIBUTES[i]) # NoAttribute
                              /\ valueOf(i).kind = "str")
  IN [j \in 1..Len(present) |-> valueOf(present[j]).val]

\* options.mode || 'dogmatic'
modeOf(opts) == IF opts.mode = "" THEN "dogmatic" ELSE opts.mode

\* The pre-checked test of the handler.
isPreChecked(node) ==
  LET defaultCheckedVal == getJSXAttributeValue(getJSXAttribute(node, "defaultChecked"))
      checkedVal == getJSXAttributeValue(getJSXAttribute(node, "checked"))
  IN \/ defaultCheckedVal = Bool("true")
     \/ checkedVal = Bool("true")
     \/ defaultCheckedVal = Str("dynamic")

\* if (hasNonConsentClues && !hasConsentClues) return
SkipsNonConsent(hasNonConsentClues, hasConsentClues) == hasNonConsentClues /\ ~hasConsentClues

\* What the JSXOpeningElement handler of no-consent-erosion reports for a
\* node: at most one report.
consentReports(node, mode) ==
  LET typeVal == getJSXAttributeValue(getJSXAttribute(node, "type"))
      clues == gatherContextClues(node)
      hasConsentClues == \E i \in 1..Len(clues) : isConsentContext(clues[i])
      hasNonConsentClues == \E i \in 1..Len(clues) : isNonConsentContext(clues[i])
  IN IF node.tagName = "" THEN <<>>
     ELSE IF node.tagName \notin {"input", "Input"} THEN <<>>
     ELSE IF typeVal # Str("checkbox") /\ typeVal # Str("radio") THEN <<>>
     ELSE IF ~isPreChecked(node) THEN <<>>
     ELSE IF getJSXAttribute(node, "data-bodhi-justify") # NoAttribute /\ mode = "lenient"
     THEN <<>>
     ELSE IF mode = "lenient" /\ ~hasConsentClues THEN <<>>
     ELSE IF SkipsNonConsent(hasNonConsentClues, hasConsentClues) THEN <<>>
     ELSE <<[messageId |-> IF hasConsentClues THEN "preCheckedConsent"
                           ELSE "preCheckedGeneral",
             suggest |-> getJSXAttribute(node, "defaultChecked") # NoAttribute]>>

\* The visit of the node by the rule.
ConsentJSXOpeningElement ==
  /\ position = 0
  /\ jsxNode # NoNode
  /\ reports' = reports \o consentReports(jsxNode, modeOf(options))
  /\ position' = 1
  /\ UNCHANGED <<options, jsxNode, program, dialogStack>>
  /\ UNCHANGED <<colorVars, valVars, registryVars, compileVars, contrastVars, historyVars, searchVars>>

LintModes == {"", "dogmatic", "lenient"}

TagNames == {"input", "Input", "div"}

TypeAttributes ==
  {<<>>,
   <<JSXAttribute("type", Literal(Str("checkbox")))>>,
   <<JSXAttribute("type", Literal(Str("radio")))>>,
   <<JSXAttribute("type", Literal(Str("text")))>>}

\* The forms of a boolean attribute: absent, bare, {true}, {false}, an
\* expression, and the text "true".
CheckedAttributes(name) ==
  {<<>>,
   <<JSXAttribute(name, NullValue)>>,
   <<JSXAttribute(name, JSXExpressionContainer(LiteralExpression(Bool("true"))))>>,
   <<JSXAttribute(name, JSXExpressionContainer(LiteralExpression(Bool("false"))))>>,
   <<JSXAttribute(name, JSXExpressionContainer(Identifier("isOn")))>>}

ClueAttributes ==
  {<<>>,
   <<JSXAttribute("name", Literal(Str("some-option")))>>,
   <<JSXAttribute("name", Literal(Str("remember-me")))>>,
   <<JSXAttribute("name", Literal(Str("newsletter")))>>,
   <<JSXAttribute("id", Literal(Str("theme-toggle"))),
     JSXAttribute("className", Literal(Str("Accept-Terms")))>>,
   <<JSXSpreadAttribute, JSXAttribute("data-testid", Literal(Str("sort-by")))>>}

JustifyAttributes ==
  {<<>>, <<JSXAttribute("data-bodhi-justify", Literal(Str("kept")))>>}

ConsentNodes ==
  {[tagName |-> tag, attributes |-> t \o d \o c \o k \o j] :
     tag \in TagNames, t \in TypeAttributes, d \in CheckedAttributes("defaultChecked"),
     c \in {<<>>, <<JSXAttribute("checked", NullValue)>>,
            <<JSXAttribute("checked", JSXExpressionContainer(Identifier("isOn")))>>},
     k \in ClueAttributes, j \in JustifyAttributes}

InitConsent ==
  /\ IdleColor /\ IdleValidate /\ IdleRegistry /\ IdleCompile /\ IdleContrast /\ IdleSearch
  /\ options \in [mode : LintModes]
  /\ jsxNode \in ConsentNodes
  /\ program = <<>>
  /\ position = 0
  /\ dialogStack = <<>>
  /\ reports = <<>>

NextConsent == ConsentJSXOpeningElement

SpecConsent == InitConsent /\ [][NextConsent]_vars

\* The input is a checkbox or a radio button that is checked from the
\* start: defaultChecked or checked is true.
PreCheckedInput(node) ==
  /\ node.tagName \in {"input", "Input"}
  /\ getJSXAttributeValue(getJSXAttribute(node, "type")) \in {Str("checkbox"), Str("radio")}
  /\ \/ getJSXAttributeValue(getJSXAttribute(node, "defaultChecked")) = Bool("true")
     \/ getJSXAttributeValue(getJSXAttribute(node, "checked")) = Bool("true")

HasConsentClues(node) ==
  \E i \in 1..Len(gatherContextClues(node)) : isConsentContext(gatherContextClues(node)[i])

\* C24: in dogmatic mode the visit of a pre-checked checkbox or radio input
\* leaves exactly one report, preCheckedConsent where an id, name or class
\* of the input has a consent keyword and preCheckedGeneral otherwise.
C24_DogmaticReportsEveryPreChecked ==
  (position = 1 /\ modeOf(options) = "dogmatic" /\ PreCheckedInput(jsxNode)) =>
    /\ Len(reports) = 1
    /\ reports[1].messageId = IF HasConsentClues(jsxNode) THEN "preCheckedConsent"
                              ELSE "preCheckedGeneral"

(* ---------------------------------------------------------------------- *)
(* no-obstructed-exit (no-manufactured-urgency.js)                        *)
(* ---------------------------------------------------------------------- *)

EXIT_KEYWORDS ==
  <<"cancel", "close", "dismiss", "decline", "reject", "skip", "no-thanks",
    "no thanks", "not now", "maybe later", "exit", "go back", "nevermind",
    "unsubscribe">>

CONFIRM_KEYWORDS ==
  <<"accept", "confirm", "agree", "subscribe", "continue", "submit", "yes",
    "sign up", "get started", "join", "buy", "purchase", "checkout",
    "proceed", "ok", "okay">>

SUPPRESSION_CLUES ==
  <<"text-sm", "text-xs", "text-gray", "text-muted", "opacity-", "link",
    "underline", "secondary", "ghost", "subtle", "quiet", "text-only",
    "btn-link", "btn-text">>

\* textMatchesKeywords(text, keywords)
textMatchesKeywords(text, keywords) ==
  /\ text # ""
  /\ \E lower \in {trim(toLowerCase(text))} : \E i \in 1..Len(keywords) : Contains(lower, keywords[i])

\* getJSXAttributeValue(attr) of this rule: true for a bare attribute, the
\* value of a literal or of a literal in braces, else undefined.
literalAttributeValue(attr) ==
  IF attr = NoAttribute THEN Undefined
  ELSE IF attr.value.type = "null" THEN Bool("true")
  ELSE IF attr.value.type = "Literal" THEN attr.value.value
  ELSE IF attr.value.type = "JSXExpressionContainer"
          /\ attr.value.expression.type = "Literal"
  THEN attr.value.expression.value
  ELSE Undefined

\* The element is dialog-like: its tag or its role says so.
isDialog(node) ==
  \/ node.tagName \in {"dialog", "Dialog", "Modal"}
  \/ literalAttributeValue(getJSXAttribute(node, "role")) \in {Str("dialog"), Str("alertdialog")}

isActionTag(node) == node.tagName \in {"button", "Button", "a", "Link"}

\* `${text} ${ariaLabel || ''}`, text being the joined text children of the
\* element.
combinedText(node) ==
  LET ariaLabel == literalAttributeValue(getJSXAttribute(node, "aria-label"))
  IN node.text \o " " \o (IF Truthy(ariaLabel) THEN Text(ariaLabel) ELSE "")

isExit(node) == textMatchesKeywords(combinedText(node), EXIT_KEYWORDS)

isConfirm(node) == textMatchesKeywords(combinedText(node), CONFIRM_KEYWORDS)

\* suppressionClues.some((clue) => className.toLowerCase().includes(clue))
hasSuppression(node) ==
  LET className == literalAttributeValue(getJSXAttribute(node, "className"))
  IN Truthy(className) /\ className.kind = "str"
     /\ \E lower \in {toLowerCase(className.val)} :
          \E i \in 1..Len(SUPPRESSION_CLUES) : Contains(lower, SUPPRESSION_CLUES[i])

\* The stack with the flags of its top entry set where the action says so.
MarkTop(stack, exit, confirm) ==
  IF stack = <<>> THEN stack
  ELSE [stack EXCEPT ![Len(stack)] =
          [@ EXCEPT !.hasExit = @ \/ exit, !.hasConfirm = @ \/ confirm]]

\* The node is the dialog's own closing tag when the tag names are equal.
ClosesTop(tagName, current) == tagName = current.tagName

\* JSXOpeningElement(node), for the node at the next position.
ExitJSXOpeningElement ==
  /\ position < Len(program)
  /\ program[position + 1].type = "JSXOpeningElement"
  /\ \E node \in {program[position + 1]} :
       \E pushed \in {IF isDialog(node)
                      THEN Append(dialogStack, [node |-> position + 1, tagName |-> node.tagName,
                                                hasExit |-> FALSE, hasConfirm |-> FALSE])
                      ELSE dialogStack} :
         IF isActionTag(node)
         THEN /\ reports' = IF isExit(node) /\ hasSuppression(node)
                            THEN Append(reports, [messageId |-> "exitLessVisible",
                                                  node |-> position + 1])
                            ELSE reports
              /\ dialogStack' = MarkTop(pushed, isExit(node), isConfirm(node))
         ELSE /\ reports' = reports
              /\ dialogStack' = pushed
  /\ position' = position + 1
  /\ UNCHANGED <<options, jsxNode, program>>
  /\ UNCHANGED <<colorVars, valVars, registryVars, compileVars, contrastVars, historyVars, searchVars>>

\* JSXClosingElement(node), for the node at the next position.
ExitJSXClosingElement ==
  /\ position < Len(program)
  /\ program[position + 1].type = "JSXClosingElement"
  /\ IF dialogStack # <<>>
        /\ ClosesTop(program[position + 1].tagName, dialogStack[Len(dialogStack)])
     THEN \E current \in {dialogStack[Len(dialogStack)]} :
            /\ reports' = IF current.hasConfirm /\ ~current.hasExit
                          THEN Append(reports, [messageId |-> "missingExit",
                                                node |-> current.node])
                          ELSE reports
            /\ dialogStack' = SubSeq(dialogStack, 1, Len(dialogStack) - 1)
     ELSE UNCHANGED <<reports, dialogStack>>
  /\ position' = position + 1
  /\ UNCHANGED <<options, jsxNode, program>>
  /\ UNCHANGED <<colorVars, valVars, registryVars, compileVars, contrastVars, historyVars, searchVars>>

\* An element of the file: its tag, attributes, text children and child
\* elements.
JSXElement(tagName, attributes, text, selfClosing, children) == [tagName |-> tagName, attributes |-> attributes, text |-> text, selfClosing |-> selfClosing, children |-> children]

RECURSIVE Traversal(_)
\* The opening and closing elements of an element in the order ESLint
\* visits them. size is the number of nodes after the opening element up
\* to the element's own closing element, 0 for a self-closing element.
Traversal(element) ==
  LET RECURSIVE Inner(_)
      Inner(children) ==
        IF children = <<>> THEN <<>>
        ELSE Traversal(Head(children)) \o Inner(Tail(children))
      inner == Inner(element.children)
      opening == [type |-> "JSXOpeningElement", tagName |-> element.tagName,
                  attributes |-> element.attributes, text |-> element.text,
                  size |-> IF element.selfClosing THEN 0 ELSE Len(inner) + 1]
  IN IF element.selfClosing THEN <<opening>>
     ELSE <<opening>> \o inner
          \o <<[type |-> "JSXClosingElement", tagName |-> element.tagName,
                attributes |-> <<>>, text |-> "", size |-> 0]>>

\* No element, one, or two in a row.
UpToTwo(elements) ==
  {<<>>} \cup {<<a>> : a \in elements} \cup {<<a, b>> : a, b \in elements}

AcceptButton == JSXElement("button", <<>>, "Accept", FALSE, <<>>)

CancelButton == JSXElement("button", <<>>, "Cancel", FALSE, <<>>)

ActionElements ==
  {AcceptButton, CancelButton,
   JSXElement("button", <<>>, "More", FALSE, <<>>),
   JSXElement("a", <<JSXAttribute("aria-label", Literal(Str("Close"))),
                     JSXAttribute("className", Literal(Str("btn-link")))>>, "x", FALSE, <<>>)}

\* Elements around actions: a plain div, a section, a nested dialog, and a
\* dialog written as a self-closing element.
InnerElements ==
  {JSXElement(tag, <<>>, "", FALSE, children) :
     tag \in {"div", "section", "dialog"}, children \in UpToTwo({AcceptButton, CancelButton})}
  \cup {JSXElement("Modal", <<>>, "", TRUE, <<>>)}

\* The dialogs of the files: a dialog element, a div with the role, a Modal.
DialogElements ==
  {JSXElement(d.tagName, d.attributes, "", FALSE, children) :
     d \in {[tagName |-> "dialog", attributes |-> <<>>],
            [tagName |-> "div", attributes |-> <<JSXAttribute("role", Literal(Str("dialog")))>>],
            [tagName |-> "Modal", attributes |-> <<>>]},
     children \in UpToTwo(ActionElements \cup InnerElements)}

ExitPrograms == {Traversal(d) : d \in DialogElements}

InitExit ==
  /\ IdleColor /\ IdleValidate /\ IdleRegistry /\ IdleCompile /\ IdleContrast /\ IdleSearch
  /\ options = [mode |-> ""]
  /\ jsxNode = NoNode
  /\ program \in ExitPrograms
  /\ position = 0
  /\ dialogStack = <<>>
  /\ reports = <<>>

NextExit == ExitJSXOpeningElement \/ ExitJSXClosingElement

SpecExit == InitExit /\ [][NextExit]_vars

\* The dialogs of the file, by the position of their opening element.
DialogOpenings ==
  {i \in 1..Len(program) : program[i].type = "JSXOpeningElement" /\ isDialog(program[i])}

\* The positions inside the element that opens at position i.
Subtree(i) == (i + 1)..(i + program[i].size - 1)

\* The dialogs that are open after the first n nodes.
OpenDialogsAfter(n) == {i \in DialogOpenings : i <= n /\ i + program[i].size > n}

ExitActionAt(i) ==
  program[i].type = "JSXOpeningElement" /\ isActionTag(program[i]) /\ isExit(program[i])

ConfirmActionAt(i) ==
  program[i].type = "JSXOpeningElement" /\ isActionTag(program[i]) /\ isConfirm(program[i])

\* C30: at every point of the traversal dialogStack holds the dialogs that
\* are open there, each one leaving it at its own closing element; after the
\* traversal missingExit is reported for a dialog exactly when its subtree
\* has a confirm action and no exit action.
C30_DialogLeavesAtItsOwnClosingTag ==
  /\ {dialogStack[k].node : k \in 1..Len(dialogStack)} = OpenDialogsAfter(position)
  /\ position = Len(program) =>
       \A i \in DialogOpenings :
         (\E k \in 1..Len(reports) : reports[k].messageId = "missingExit" /\ reports[k].node = i)
           <=> /\ \E j \in Subtree(i) : ConfirmActionAt(j)
               /\ ~\E j \in Subtree(i) : ExitActionAt(j)

====
